---- MODULE Spec2Model ----
(***************************************************************************)
(* Model of my_ptr: control_block_base with its two counters, the separate *)
(* and inline control blocks, shared_ptr, weak_ptr and unique_ptr.         *)
(*                                                                         *)
(* Spec   : single-threaded program; every action is one whole call of the *)
(*          public API (constructor, destructor, assignment, reset, ...).  *)
(* SpecRaw: Spec, where the raw-pointer constructor and reset may also be  *)
(*          given a null pointer.                                          *)
(* SpecMT : several threads, each working on handles of its own; every     *)
(*          action is one atomic memory operation of control_block_base    *)
(*          (fetch_add, fetch_sub, load, compare_exchange_weak) or one     *)
(*          call of dispose() / destroy().                                 *)
(* SpecBench : the threads of test_thread_safety in benchmark.cpp, which   *)
(*          copy one shared_ptr that the main thread keeps.                *)
(* SpecUnique: single-threaded program on unique_ptr variables; every      *)
(*          action is one whole call.                                      *)
(* SpecAlloc : allocate_shared with a constructor that may throw, and the  *)
(*          use of the shared_ptr it returns.                              *)
(* SpecMTFair: the upgrade of a weak_ptr and the shared_ptr calls beside   *)
(*          it, as in SpecMT, with the fairness of the threads' loops.     *)
(* SpecOOM   : the constructing calls when operator new or the allocator   *)
(*          throws std::bad_alloc, next to the calls that succeed.         *)
(* SpecHB    : SpecMT with the memory orderings of the atomic operations   *)
(*          and the writes of the threads to the managed object.           *)
(* SpecCycle : single-threaded program whose managed objects hold a        *)
(*          shared_ptr to another managed object.                          *)
(***************************************************************************)
EXTENDS Integers, FiniteSets

\* ------------------------------------------------------------------ bounds
MaxBlocks   == 2     \* Spec: control blocks allocated in one run
MaxShared   == 2     \* Spec: shared_ptr variables of the program
MaxWeak     == 2     \* Spec: weak_ptr variables of the program
MaxThreads  == 2     \* SpecMT: threads
MaxSharedMT == 3     \* SpecMT: shared_ptr variables of all threads
MaxWeakMT   == 3     \* SpecMT: weak_ptr variables of all threads
MaxIterations == 2   \* SpecBench: iterations of the loop of one thread
MaxUnique   == 2     \* SpecUnique: unique_ptr variables of the program
MaxAddrs    == 2     \* SpecUnique: objects allocated in one run

Blocks  == 1..MaxBlocks
SP      == 1..MaxShared
WP      == 1..MaxWeak
Threads == 1..MaxThreads
SPMT    == 1..MaxSharedMT
WPMT    == 1..MaxWeakMT
UP      == 1..MaxUnique
Addrs   == 1..MaxAddrs

Null  == 0           \* nullptr (an object has the address of its block id)

\* ptr_(nullptr), ctrl_block_(nullptr): an empty handle. A variable that is
\* not in scope (not constructed yet, or destroyed) is written the same way:
\* it owns nothing, and a constructor may build a handle in it.
Empty == [ptr_ |-> Null, ctrl_block_ |-> Null]

VARIABLES
    mem,      \* the heap: control blocks, managed objects, use-after-free flag
    sp,       \* the shared_ptr variables: [ptr_, ctrl_block_]
    wp,       \* the weak_ptr variables:   [ptr_, ctrl_block_]
    ret,      \* how the last call ended: "void"; for lock() "handle" (a
              \* handle that has a block) or "empty"; for
              \* shared_ptr(const weak_ptr&) "constructed", "constructed_empty"
              \* or "bad_weak_ptr" (the exception thrown)
    th,       \* SpecMT: per thread, the call in progress
    bench,    \* SpecBench: the loop counters of the threads, the object's value
    up,       \* SpecUnique: the unique_ptr variables and what they point to
    al,       \* SpecAlloc: what the caller's allocator has handed out
    hb        \* SpecHB: which writes to the object each thread has observed

vars == <<mem, sp, wp, ret, th, bench, up, al, hb>>

\* What the calls on shared_ptr and weak_ptr leave alone.
others == <<bench, up, al, hb>>

\* --------------------------------------------------------------- the heap
\* A control block that was never allocated.
NoBlock ==
    [alloc |-> "none", variant |-> "none", shared_count_ |-> 0, weak_count_ |-> 0,
     ptr_ |-> Null, dispose_calls |-> 0, destroy_calls |-> 0]

\* An object that was never constructed.
NoObject == [state |-> "none", dtor_runs |-> 0]

\* Every access to a counter of a block goes through Touch: a block that is
\* not allocated any more makes the access a use after free.
Touch(M, b) ==
    IF M.cb[b].alloc # "live" THEN [M EXCEPT !.uaf = TRUE] ELSE M

\* control_block_base(): shared_count_(1), weak_count_(1): the first owner,
\* and the weak reference the owners hold together.
InitialShared == 1

\* Faulty variant of InitialWeak: weak_count_(0), the owners hold no weak reference.
InitialWeak_NoImplicit == 1 - 1

InitialWeak == 1

\* new separate_control_block(ptr, deleter); p = Null for a null raw pointer,
\* else the object new T, which has the id of the block.
make_control_block(M, b, p) ==
    [M EXCEPT
        !.cb[b] = [alloc |-> "live", variant |-> "separate",
                   shared_count_ |-> InitialShared, weak_count_ |-> InitialWeak,
                   ptr_ |-> p, dispose_calls |-> 0, destroy_calls |-> 0],
        !.obj[b] = IF p # Null THEN [state |-> "live", dtor_runs |-> 0] ELSE @]

\* new inline_control_block<T>(args...): the object is built in storage_.
make_inline_control_block(M, b) ==
    [M EXCEPT
        !.cb[b] = [alloc |-> "live", variant |-> "inline",
                   shared_count_ |-> InitialShared, weak_count_ |-> InitialWeak,
                   ptr_ |-> Null, dispose_calls |-> 0, destroy_calls |-> 0],
        !.obj[b] = [state |-> "live", dtor_runs |-> 0]]

\* The deleter / destructor runs on object o.
RunDestructor(M, o) ==
    [M EXCEPT !.obj[o] = [state |-> "destroyed", dtor_runs |-> @.dtor_runs + 1]]

\* separate_control_block::dispose: if (ptr_) { deleter_(ptr_); ptr_ = nullptr; }
dispose_separate(M, b) ==
    IF M.cb[b].ptr_ # Null
    THEN [RunDestructor(M, M.cb[b].ptr_) EXCEPT !.cb[b].ptr_ = Null]
    ELSE M

\* Faulty variant of dispose_inline: the storage is given back with the
\* destructor call, as delete does for a separate object.
dispose_inline_FreesStorage(M, b) ==
    [RunDestructor(M, b) EXCEPT !.cb[b].alloc = "freed"]

\* inline_control_block::dispose: get_ptr()->~T();
dispose_inline(M, b) == RunDestructor(M, b)

\* The memory the object of block b lives in: the member storage_ of an
\* inline_control_block, allocated as long as the block is; for a
\* separate_control_block the memory of new T, which the deleter frees.
storage_allocated(M, b) ==
    IF M.cb[b].variant = "inline" THEN M.cb[b].alloc = "live"
                                  ELSE M.obj[b].state = "live"

\* Faulty variant of dispose: the call does nothing to the object.
dispose_Skipped(M, b) == Touch(M, b)

\* virtual dispose()
dispose(M, b) ==
    LET M1 == [Touch(M, b) EXCEPT !.cb[b].dispose_calls = @ + 1]
    IN  IF M.cb[b].variant = "inline" THEN dispose_inline(M1, b)
                                      ELSE dispose_separate(M1, b)

\* virtual destroy(): delete this; the memory is given back, and with it
\* the members of the derived class.
destroy(M, b) ==
    [Touch(M, b) EXCEPT !.cb[b].alloc = "freed", !.cb[b].variant = "none",
                        !.cb[b].ptr_ = Null, !.cb[b].destroy_calls = @ + 1]

\* shared_count_.fetch_add(1)
add_shared_ref(M, b) == [Touch(M, b) EXCEPT !.cb[b].shared_count_ = @ + 1]

\* Faulty variant of add_weak_ref: the strong counter is incremented.
add_weak_ref_Strong(M, b) == [Touch(M, b) EXCEPT !.cb[b].shared_count_ = @ + 1]

\* weak_count_.fetch_add(1)
add_weak_ref(M, b) == [Touch(M, b) EXCEPT !.cb[b].weak_count_ = @ + 1]

\* Faulty variant of FetchSubShared: one release takes two references.
FetchSubShared_Twice(M, b) == [Touch(M, b) EXCEPT !.cb[b].shared_count_ = @ - 2]

\* shared_count_.fetch_sub(1): the memory afterwards (the value before is
\* M.cb[b].shared_count_)
FetchSubShared(M, b) == [Touch(M, b) EXCEPT !.cb[b].shared_count_ = @ - 1]

\* Faulty variant of FetchSubWeak: the decrement is lost.
FetchSubWeak_Lost(M, b) == Touch(M, b)

\* weak_count_.fetch_sub(1)
FetchSubWeak(M, b) == [Touch(M, b) EXCEPT !.cb[b].weak_count_ = @ - 1]

\* Faulty variant of WasLast: the value after the decrement is expected from
\* fetch_sub, so that the last release goes unnoticed.
WasLast_NewValue(old) == old = 0

\* Faulty variant of WasLast: --count == 1 in place of count.fetch_sub(1) == 1.
WasLast_PreDecrement(old) == old - 1 = 1

\* The test of release_shared / release_weak on the value fetch_sub returns.
WasLast(old) == old = 1

\* release_weak: if (weak_count_.fetch_sub(1) == 1) destroy();
release_weak(M, b) ==
    LET old == M.cb[b].weak_count_
        M1  == FetchSubWeak(M, b)
    IN  IF WasLast(old) THEN destroy(M1, b) ELSE M1

\* Faulty variant of release_shared: the last owner destroys the block itself
\* instead of giving up the owners' weak reference.
release_shared_DestroysBlock(M, b) ==
    LET old == M.cb[b].shared_count_
        M1  == FetchSubShared(M, b)
    IN  IF WasLast(old) THEN destroy(dispose(M1, b), b) ELSE M1

\* release_shared: if (shared_count_.fetch_sub(1) == 1) { dispose(); release_weak(); }
release_shared(M, b) ==
    LET old == M.cb[b].shared_count_
        M1  == FetchSubShared(M, b)
    IN  IF WasLast(old) THEN release_weak(dispose(M1, b), b) ELSE M1

CanUpgrade_RetriesOnZero(count) == TRUE

\* The loop condition of try_add_shared_ref: while (count != 0)
CanUpgrade(count) == count # 0

\* Faulty variant of compare_exchange_matches: check, then fetch_add.
compare_exchange_matches_CheckThenAct(current, count) == TRUE

\* compare_exchange_weak(count, count + 1) may store only when the counter
\* still has the value count.
compare_exchange_matches(current, count) == current = count

\* Faulty variant of try_add_shared_ref_ok: the result of the loop is ignored.
try_add_shared_ref_ok_Always(M, b) == TRUE

\* try_add_shared_ref run without interruption: the load, then a
\* compare_exchange_weak that cannot fail for another thread's sake.
try_add_shared_ref_ok(M, b) == CanUpgrade(M.cb[b].shared_count_)

\* Faulty variant of try_add_shared_ref: fetch_add first, test afterwards.
try_add_shared_ref_IncrementFirst(M, b) ==
    [Touch(M, b) EXCEPT !.cb[b].shared_count_ = @ + 1]

try_add_shared_ref(M, b) ==
    IF try_add_shared_ref_ok(M, b)
    THEN [Touch(M, b) EXCEPT !.cb[b].shared_count_ = @ + 1]
    ELSE Touch(M, b)

\* Faulty variant of cb_use_count: the wrong counter is loaded.
cb_use_count_WeakCounter(M, b) == M.cb[b].weak_count_

\* control_block_base::use_count: shared_count_.load(relaxed)
cb_use_count(M, b) == M.cb[b].shared_count_

\* ------------------------------------------------------------- the handles
\* A variable a constructor may build a handle in.
Unused(hd) == hd = Empty

\* shared_ptr::use_count / weak_ptr::use_count
use_count(hd) ==
    IF hd.ctrl_block_ # Null THEN cb_use_count(mem, hd.ctrl_block_) ELSE 0

\* shared_ptr::unique
unique(hd) == use_count(hd) = 1

\* weak_ptr::expired
expired(hd) == use_count(hd) = 0

\* shared_ptr::operator bool
AsBool(hd) == hd.ptr_ # Null

\* Faulty variant of CopyShared: the copy does not call add_shared_ref.
CopyShared_NoAddRef(M, hd) == M

\* The body of the copy constructors of shared_ptr.
CopyShared(M, hd) ==
    IF hd.ctrl_block_ # Null THEN add_shared_ref(M, hd.ctrl_block_) ELSE M

\* The body of ~shared_ptr.
DropShared(M, hd) ==
    IF hd.ctrl_block_ # Null THEN release_shared(M, hd.ctrl_block_) ELSE M

\* Faulty variant of CopyWeak: the copy does not call add_weak_ref.
CopyWeak_NoAddRef(M, hd) == M

\* The body of the weak_ptr constructors from shared_ptr / weak_ptr.
CopyWeak(M, hd) ==
    IF hd.ctrl_block_ # Null THEN add_weak_ref(M, hd.ctrl_block_) ELSE M

\* The body of ~weak_ptr.
DropWeak(M, hd) ==
    IF hd.ctrl_block_ # Null THEN release_weak(M, hd.ctrl_block_) ELSE M

\* operator new: the next block the allocator hands out (blocks are never
\* handed out twice in one run).
FreshBlocks == {b \in Blocks : mem.cb[b].alloc = "none" /\ mem.obj[b].state = "none"}
NewBlock == CHOOSE b \in FreshBlocks : \A c \in FreshBlocks : b <= c

Idle == [pc |-> "idle", blk |-> Null, count |-> 0, dst |-> 0, src |-> 0, op |-> "none"]

\* No thread of the benchmark has started; TestClass(0).
NoRun == [iter |-> [t \in Threads |-> 0], value |-> 0]

\* unique_ptr(): ptr_(nullptr), deleter_(); a variable that is not in scope
\* is written the same way.
EmptyUnique == [ptr_ |-> Null, deleter_ |-> "default"]

\* An address at which nothing was allocated. The fields after state are
\* ghosts: how often a deleter of a unique_ptr was invoked on the address,
\* which deleter it was, and what the unique_ptr held (ptr_at_delete) and
\* was being given (reset_arg) at that moment.
NoTarget ==
    [state |-> "none", deleter_calls |-> 0, deleted_by |-> "none",
     ptr_at_delete |-> Null, reset_arg |-> Null]

\* No unique_ptr in scope, nothing allocated, no raw pointer in the hands of
\* the caller, no release() has returned yet.
NoUnique ==
    [u   |-> [x \in UP |-> EmptyUnique],
     obj |-> [a \in Addrs |-> NoTarget],
     raw |-> {},
     ret |-> Null]

\* The caller's allocator has handed out nothing.
NoStorage == [storage |-> "none", allocate_calls |-> 0, deallocate_calls |-> 0]

NoAlloc == [b \in Blocks |-> NoStorage]

\* The value of bench, up, al or hb in the specifications of a program that
\* has no benchmark threads, no unique_ptr, no allocator of its own, or whose
\* memory is sequentially consistent.
Absent == "absent"

\* No control block allocated, no shared_ptr or weak_ptr holds anything.
InitHandles ==
    /\ mem = [cb |-> [b \in Blocks |-> NoBlock],
              obj |-> [b \in Blocks |-> NoObject],
              uaf |-> FALSE]
    /\ sp = [h \in SP |-> Empty]
    /\ wp = [w \in WP |-> Empty]
    /\ ret = "void"
    /\ th = [t \in Threads |-> Idle]

Init ==
    /\ InitHandles
    /\ bench = Absent
    /\ up = Absent
    /\ al = Absent
    /\ hb = Absent

InitUnique ==
    /\ InitHandles
    /\ bench = Absent
    /\ up = NoUnique
    /\ al = Absent
    /\ hb = Absent

InitAlloc ==
    /\ InitHandles
    /\ bench = Absent
    /\ up = Absent
    /\ al = NoAlloc
    /\ hb = Absent

\* ------------------------------------------------- shared_ptr, whole calls
\* shared_ptr() / shared_ptr(nullptr)
shared_ptr_default(h) ==
    /\ Unused(sp[h])
    /\ sp' = [sp EXCEPT ![h] = Empty]
    /\ ret' = "void"
    /\ UNCHANGED <<mem, wp, th, others>>

\* shared_ptr(U* ptr): ptr_(ptr), ctrl_block_(make_control_block(ptr, default_delete))
\* isNull: the raw pointer passed in is nullptr.
shared_ptr_raw(h, isNull) ==
    /\ Unused(sp[h])
    /\ FreshBlocks # {}
    /\ LET b == NewBlock
           p == IF isNull THEN Null ELSE b
       IN  /\ sp' = [sp EXCEPT ![h] = [ptr_ |-> p, ctrl_block_ |-> b]]
           /\ mem' = make_control_block(mem, b, p)
    /\ ret' = "void"
    /\ UNCHANGED <<wp, th, others>>

\* make_shared<T>(args...)
make_shared(h) ==
    /\ Unused(sp[h])
    /\ FreshBlocks # {}
    /\ LET b == NewBlock
       IN  /\ sp' = [sp EXCEPT ![h] = [ptr_ |-> b, ctrl_block_ |-> b]]
           /\ mem' = make_inline_control_block(mem, b)
    /\ ret' = "void"
    /\ UNCHANGED <<wp, th, others>>

\* shared_ptr(const shared_ptr& other)
shared_ptr_copy(h, o) ==
    /\ Unused(sp[h])
    /\ h # o
    /\ sp' = [sp EXCEPT ![h] = sp[o]]
    /\ mem' = CopyShared(mem, sp[o])
    /\ ret' = "void"
    /\ UNCHANGED <<wp, th, others>>

\* Faulty variant of shared_ptr_move: other.ptr_ and other.ctrl_block_ are not
\* set to nullptr.
shared_ptr_move_KeepsSource(h, o) ==
    /\ Unused(sp[h])
    /\ h # o
    /\ sp' = [sp EXCEPT ![h] = sp[o]]
    /\ ret' = "void"
    /\ UNCHANGED <<mem, wp, th, others>>

\* shared_ptr(shared_ptr&& other)
shared_ptr_move(h, o) ==
    /\ Unused(sp[h])
    /\ h # o
    /\ sp' = [sp EXCEPT ![h] = sp[o], ![o] = Empty]
    /\ ret' = "void"
    /\ UNCHANGED <<mem, wp, th, others>>

\* ~shared_ptr()
shared_ptr_dtor(h) ==
    /\ sp' = [sp EXCEPT ![h] = Empty]
    /\ mem' = DropShared(mem, sp[h])
    /\ ret' = "void"
    /\ UNCHANGED <<wp, th, others>>

\* void swap(shared_ptr& other) on an array of handles
SwapIn(f, a, b) == [f EXCEPT ![a] = f[b], ![b] = f[a]]

\* Faulty variant of shared_ptr_assign_copy: the old value is released
\* before the copy of other is made.
shared_ptr_assign_copy_ReleaseFirst(h, o) ==
    /\ sp' = [sp EXCEPT ![h] = sp[o]]
    /\ mem' = CopyShared(DropShared(mem, sp[h]), sp[o])
    /\ ret' = "void"
    /\ UNCHANGED <<wp, th, others>>

\* operator=(const shared_ptr& other): shared_ptr(other).swap(*this);
\* the temporary is a copy of other, takes the old value of *this in the
\* swap and releases it in its destructor.
shared_ptr_assign_copy(h, o) ==
    /\ sp' = [sp EXCEPT ![h] = sp[o]]
    /\ mem' = DropShared(CopyShared(mem, sp[o]), sp[h])
    /\ ret' = "void"
    /\ UNCHANGED <<wp, th, others>>

\* operator=(shared_ptr&& other): shared_ptr(std::move(other)).swap(*this);
\* the temporary steals other (other becomes null), then swaps with *this.
shared_ptr_assign_move(h, o) ==
    /\ LET tmp    == sp[o]
           nulled == [sp EXCEPT ![o] = Empty]
           old    == nulled[h]
       IN  /\ sp' = [nulled EXCEPT ![h] = tmp]
           /\ mem' = DropShared(mem, old)
    /\ ret' = "void"
    /\ UNCHANGED <<wp, th, others>>

\* reset(): shared_ptr().swap(*this);
shared_ptr_reset(h) ==
    /\ sp' = [sp EXCEPT ![h] = Empty]
    /\ mem' = DropShared(mem, sp[h])
    /\ ret' = "void"
    /\ UNCHANGED <<wp, th, others>>

\* Faulty variant of shared_ptr_reset_raw: the old ownership is not released.
shared_ptr_reset_raw_KeepsOld(h, isNull) ==
    /\ FreshBlocks # {}
    /\ LET b == NewBlock
           p == IF isNull THEN Null ELSE b
       IN  /\ sp' = [sp EXCEPT ![h] = [ptr_ |-> p, ctrl_block_ |-> b]]
           /\ mem' = make_control_block(mem, b, p)
    /\ ret' = "void"
    /\ UNCHANGED <<wp, th, others>>

\* reset(U* ptr): shared_ptr(ptr).swap(*this);
shared_ptr_reset_raw(h, isNull) ==
    /\ FreshBlocks # {}
    /\ LET b == NewBlock
           p == IF isNull THEN Null ELSE b
       IN  /\ sp' = [sp EXCEPT ![h] = [ptr_ |-> p, ctrl_block_ |-> b]]
           /\ mem' = DropShared(make_control_block(mem, b, p), sp[h])
    /\ ret' = "void"
    /\ UNCHANGED <<wp, th, others>>

\* swap(shared_ptr& other)
shared_ptr_swap(h, o) ==
    /\ h < o
    /\ sp' = SwapIn(sp, h, o)
    /\ ret' = "void"
    /\ UNCHANGED <<mem, wp, th, others>>

\* Faulty variant of shared_ptr_from_weak: an empty weak_ptr makes the
\* constructor throw, as an expired one does.
shared_ptr_from_weak_ThrowsOnEmpty(h, w) ==
    /\ Unused(sp[h])
    /\ LET b == wp[w].ctrl_block_
       IN  IF b = Null
           THEN /\ ret' = "bad_weak_ptr"
                /\ sp' = sp
                /\ mem' = mem
           ELSE /\ IF try_add_shared_ref_ok(mem, b)
                   THEN ret' = "constructed" /\ sp' = [sp EXCEPT ![h] = wp[w]]
                   ELSE ret' = "bad_weak_ptr" /\ sp' = sp
                /\ mem' = try_add_shared_ref(mem, b)
    /\ UNCHANGED <<wp, th, others>>

\* shared_ptr(const weak_ptr<U>& other):
\*   if (ctrl_block_ && !ctrl_block_->try_add_shared_ref()) throw bad_weak_ptr();
\* A constructor that throws leaves no object, and no destructor runs.
shared_ptr_from_weak(h, w) ==
    /\ Unused(sp[h])
    /\ LET b == wp[w].ctrl_block_
       IN  IF b = Null
           THEN /\ ret' = "constructed_empty"
                /\ sp' = [sp EXCEPT ![h] = wp[w]]
                /\ mem' = mem
           ELSE /\ IF try_add_shared_ref_ok(mem, b)
                   THEN ret' = "constructed" /\ sp' = [sp EXCEPT ![h] = wp[w]]
                   ELSE ret' = "bad_weak_ptr" /\ sp' = sp
                /\ mem' = try_add_shared_ref(mem, b)
    /\ UNCHANGED <<wp, th, others>>

\* --------------------------------------------------- weak_ptr, whole calls
\* weak_ptr()
weak_ptr_default(w) ==
    /\ Unused(wp[w])
    /\ wp' = [wp EXCEPT ![w] = Empty]
    /\ ret' = "void"
    /\ UNCHANGED <<mem, sp, th, others>>

\* weak_ptr(const shared_ptr<U>& other)
weak_ptr_from_shared(w, h) ==
    /\ Unused(wp[w])
    /\ wp' = [wp EXCEPT ![w] = sp[h]]
    /\ mem' = CopyWeak(mem, sp[h])
    /\ ret' = "void"
    /\ UNCHANGED <<sp, th, others>>

\* weak_ptr(const weak_ptr& other)
weak_ptr_copy(w, o) ==
    /\ Unused(wp[w])
    /\ w # o
    /\ wp' = [wp EXCEPT ![w] = wp[o]]
    /\ mem' = CopyWeak(mem, wp[o])
    /\ ret' = "void"
    /\ UNCHANGED <<sp, th, others>>

\* weak_ptr(weak_ptr&& other)
weak_ptr_move(w, o) ==
    /\ Unused(wp[w])
    /\ w # o
    /\ wp' = [wp EXCEPT ![w] = wp[o], ![o] = Empty]
    /\ ret' = "void"
    /\ UNCHANGED <<mem, sp, th, others>>

\* ~weak_ptr()
weak_ptr_dtor(w) ==
    /\ wp' = [wp EXCEPT ![w] = Empty]
    /\ mem' = DropWeak(mem, wp[w])
    /\ ret' = "void"
    /\ UNCHANGED <<sp, th, others>>

\* operator=(const weak_ptr& other): weak_ptr(other).swap(*this);
weak_ptr_assign_copy(w, o) ==
    /\ wp' = [wp EXCEPT ![w] = wp[o]]
    /\ mem' = DropWeak(CopyWeak(mem, wp[o]), wp[w])
    /\ ret' = "void"
    /\ UNCHANGED <<sp, th, others>>

\* operator=(weak_ptr&& other): weak_ptr(std::move(other)).swap(*this);
weak_ptr_assign_move(w, o) ==
    /\ LET tmp    == wp[o]
           nulled == [wp EXCEPT ![o] = Empty]
           old    == nulled[w]
       IN  /\ wp' = [nulled EXCEPT ![w] = tmp]
           /\ mem' = DropWeak(mem, old)
    /\ ret' = "void"
    /\ UNCHANGED <<sp, th, others>>

\* operator=(const shared_ptr<U>& other): weak_ptr(other).swap(*this);
weak_ptr_assign_shared(w, h) ==
    /\ wp' = [wp EXCEPT ![w] = sp[h]]
    /\ mem' = DropWeak(CopyWeak(mem, sp[h]), wp[w])
    /\ ret' = "void"
    /\ UNCHANGED <<sp, th, others>>

\* reset(): weak_ptr().swap(*this);
weak_ptr_reset(w) ==
    /\ wp' = [wp EXCEPT ![w] = Empty]
    /\ mem' = DropWeak(mem, wp[w])
    /\ ret' = "void"
    /\ UNCHANGED <<sp, th, others>>

\* swap(weak_ptr& other)
weak_ptr_swap(w, o) ==
    /\ w < o
    /\ wp' = SwapIn(wp, w, o)
    /\ ret' = "void"
    /\ UNCHANGED <<mem, sp, th, others>>

\* lock(): if (ctrl_block_ && ctrl_block_->try_add_shared_ref())
\*             return shared_ptr<T>(ctrl_block_, ptr_);
\*         return shared_ptr<T>();
\* The returned handle initialises the variable h.
lock(w, h) ==
    /\ Unused(sp[h])
    /\ LET b == wp[w].ctrl_block_
       IN  IF b # Null /\ try_add_shared_ref_ok(mem, b)
           THEN /\ ret' = "handle"
                /\ sp' = [sp EXCEPT ![h] = wp[w]]
                /\ mem' = try_add_shared_ref(mem, b)
           ELSE /\ ret' = "empty"
                /\ sp' = [sp EXCEPT ![h] = Empty]
                /\ mem' = IF b # Null THEN try_add_shared_ref(mem, b) ELSE mem
    /\ UNCHANGED <<wp, th, others>>

\* A single-threaded program that gives shared_ptr(U*) and reset(U*) the
\* address of an object (new T).
Next ==
    \/ \E h \in SP : shared_ptr_default(h)
    \/ \E h \in SP : shared_ptr_raw(h, FALSE)
    \/ \E h \in SP : make_shared(h)
    \/ \E h, o \in SP : shared_ptr_copy(h, o)
    \/ \E h, o \in SP : shared_ptr_move(h, o)
    \/ \E h \in SP : shared_ptr_dtor(h)
    \/ \E h, o \in SP : shared_ptr_assign_copy(h, o)
    \/ \E h, o \in SP : shared_ptr_assign_move(h, o)
    \/ \E h \in SP : shared_ptr_reset(h)
    \/ \E h \in SP : shared_ptr_reset_raw(h, FALSE)
    \/ \E h, o \in SP : shared_ptr_swap(h, o)
    \/ \E h \in SP, w \in WP : shared_ptr_from_weak(h, w)
    \/ \E w \in WP : weak_ptr_default(w)
    \/ \E w \in WP, h \in SP : weak_ptr_from_shared(w, h)
    \/ \E w, o \in WP : weak_ptr_copy(w, o)
    \/ \E w, o \in WP : weak_ptr_move(w, o)
    \/ \E w \in WP : weak_ptr_dtor(w)
    \/ \E w, o \in WP : weak_ptr_assign_copy(w, o)
    \/ \E w, o \in WP : weak_ptr_assign_move(w, o)
    \/ \E w \in WP, h \in SP : weak_ptr_assign_shared(w, h)
    \/ \E w \in WP : weak_ptr_reset(w)
    \/ \E w, o \in WP : weak_ptr_swap(w, o)
    \/ \E w \in WP, h \in SP : lock(w, h)

Spec == Init /\ [][Next]_vars

\* The same program, which may also pass a null U* to shared_ptr(U*) and
\* reset(U*): a control block is made for it all the same.
NextRaw ==
    \/ Next
    \/ \E h \in SP : shared_ptr_raw(h, TRUE)
    \/ \E h \in SP : shared_ptr_reset_raw(h, TRUE)

SpecRaw == Init /\ [][NextRaw]_vars

\* ------------------------------------------- SpecMT: threads, atomic steps
\* Every handle variable belongs to one thread, the only one that reads or
\* writes it (moves and swaps touch handles alone and are left to Spec).
OwnerSP(h) == ((h - 1) % MaxThreads) + 1
OwnerWP(w) == ((w - 1) % MaxThreads) + 1

IsIdle(t) == th[t].pc = "idle"

Busy(p, b) == [Idle EXCEPT !.pc = p, !.blk = b]

\* The states in which the threads start: the main thread has built block 1
\* (from a raw pointer or with make_shared) and has handed copies of the
\* shared_ptr, and weak_ptrs made from it, to the threads.
Handle1 == [ptr_ |-> 1, ctrl_block_ |-> 1]

InitMT ==
    /\ \E v \in {"separate", "inline"}, hs \in (SUBSET SPMT) \ {{}}, ws \in SUBSET WPMT :
          /\ sp = [h \in SPMT |-> IF h \in hs THEN Handle1 ELSE Empty]
          /\ wp = [w \in WPMT |-> IF w \in ws THEN Handle1 ELSE Empty]
          /\ mem = [cb |-> [b \in Blocks |->
                              IF b = 1
                              THEN [alloc |-> "live", variant |-> v,
                                    shared_count_ |-> Cardinality(hs),
                                    weak_count_ |-> Cardinality(ws) + InitialWeak,
                                    ptr_ |-> 1, dispose_calls |-> 0, destroy_calls |-> 0]
                              ELSE NoBlock],
                    obj |-> [b \in Blocks |->
                              IF b = 1 THEN [state |-> "live", dtor_runs |-> 0] ELSE NoObject],
                    uaf |-> FALSE]
    /\ ret = "void"
    /\ th = [t \in Threads |-> Idle]
    /\ bench = Absent
    /\ up = Absent
    /\ al = Absent
    /\ hb = Absent

\* shared_ptr(const shared_ptr&): one fetch_add
mt_shared_copy(t, h, o) ==
    /\ IsIdle(t) /\ OwnerSP(h) = t /\ OwnerSP(o) = t /\ h # o
    /\ Unused(sp[h])
    /\ mem' = CopyShared(mem, sp[o])
    /\ sp' = [sp EXCEPT ![h] = sp[o]]
    /\ UNCHANGED <<wp, ret, th, others>>

\* ~shared_ptr() or reset(), up to the fetch_sub of release_shared
mt_shared_release(t, h) ==
    /\ IsIdle(t) /\ OwnerSP(h) = t
    /\ sp' = [sp EXCEPT ![h] = Empty]
    /\ LET b == sp[h].ctrl_block_
       IN  IF b = Null
           THEN UNCHANGED <<mem, th>>
           ELSE /\ mem' = FetchSubShared(mem, b)
                /\ th' = [th EXCEPT ![t] =
                            IF WasLast(mem.cb[b].shared_count_)
                            THEN Busy("dispose", b) ELSE Idle]
    /\ UNCHANGED <<wp, ret, others>>

\* release_shared: dispose();
mt_dispose(t) ==
    /\ th[t].pc = "dispose"
    /\ mem' = dispose(mem, th[t].blk)
    /\ th' = [th EXCEPT ![t] = Busy("release_weak", th[t].blk)]
    /\ UNCHANGED <<sp, wp, ret, others>>

\* release_shared: release_weak(); up to its fetch_sub
mt_release_weak(t) ==
    /\ th[t].pc = "release_weak"
    /\ mem' = FetchSubWeak(mem, th[t].blk)
    /\ th' = [th EXCEPT ![t] =
                IF WasLast(mem.cb[th[t].blk].weak_count_)
                THEN Busy("destroy", th[t].blk) ELSE Idle]
    /\ UNCHANGED <<sp, wp, ret, others>>

\* release_weak: destroy();
mt_destroy(t) ==
    /\ th[t].pc = "destroy"
    /\ mem' = destroy(mem, th[t].blk)
    /\ th' = [th EXCEPT ![t] = Idle]
    /\ UNCHANGED <<sp, wp, ret, others>>

\* weak_ptr(const shared_ptr&): one fetch_add
mt_weak_from_shared(t, w, h) ==
    /\ IsIdle(t) /\ OwnerWP(w) = t /\ OwnerSP(h) = t
    /\ Unused(wp[w])
    /\ mem' = CopyWeak(mem, sp[h])
    /\ wp' = [wp EXCEPT ![w] = sp[h]]
    /\ UNCHANGED <<sp, ret, th, others>>

\* weak_ptr(const weak_ptr&): one fetch_add
mt_weak_copy(t, w, o) ==
    /\ IsIdle(t) /\ OwnerWP(w) = t /\ OwnerWP(o) = t /\ w # o
    /\ Unused(wp[w])
    /\ mem' = CopyWeak(mem, wp[o])
    /\ wp' = [wp EXCEPT ![w] = wp[o]]
    /\ UNCHANGED <<sp, ret, th, others>>

\* ~weak_ptr() or reset(), up to the fetch_sub of release_weak
mt_weak_release(t, w) ==
    /\ IsIdle(t) /\ OwnerWP(w) = t
    /\ wp' = [wp EXCEPT ![w] = Empty]
    /\ LET b == wp[w].ctrl_block_
       IN  IF b = Null
           THEN UNCHANGED <<mem, th>>
           ELSE /\ mem' = FetchSubWeak(mem, b)
                /\ th' = [th EXCEPT ![t] =
                            IF WasLast(mem.cb[b].weak_count_)
                            THEN Busy("destroy", b) ELSE Idle]
    /\ UNCHANGED <<sp, ret, others>>

\* lock() (op = "lock") or shared_ptr(const weak_ptr&) (op = "ctor"), up to
\* the load of try_add_shared_ref; with a null ctrl_block_ the call is over.
mt_upgrade_begin(t, w, h, op) ==
    /\ IsIdle(t) /\ OwnerWP(w) = t /\ OwnerSP(h) = t
    /\ Unused(sp[h])
    /\ LET b == wp[w].ctrl_block_
       IN  IF b = Null
           THEN /\ sp' = [sp EXCEPT ![h] = Empty]
                /\ ret' = IF op = "lock" THEN "empty" ELSE "constructed_empty"
                /\ UNCHANGED <<mem, th>>
           ELSE /\ mem' = Touch(mem, b)
                /\ th' = [th EXCEPT ![t] =
                            [pc |-> "cas", blk |-> b, count |-> cb_use_count(mem, b),
                             dst |-> h, src |-> w, op |-> op]]
                /\ UNCHANGED <<sp, ret>>
    /\ UNCHANGED <<wp, others>>

\* try_add_shared_ref: while (count != 0) is false: return false;
\* lock() returns shared_ptr<T>(), the constructor throws bad_weak_ptr.
mt_upgrade_fail(t) ==
    /\ th[t].pc = "cas"
    /\ ~CanUpgrade(th[t].count)
    /\ IF th[t].op = "lock"
       THEN sp' = [sp EXCEPT ![th[t].dst] = Empty] /\ ret' = "empty"
       ELSE ret' = "bad_weak_ptr" /\ UNCHANGED sp
    /\ th' = [th EXCEPT ![t] = Idle]
    /\ UNCHANGED <<mem, wp, others>>

\* try_add_shared_ref: compare_exchange_weak(count, count + 1) succeeds
mt_cas_success(t) ==
    /\ th[t].pc = "cas"
    /\ CanUpgrade(th[t].count)
    /\ compare_exchange_matches(cb_use_count(mem, th[t].blk), th[t].count)
    /\ mem' = [Touch(mem, th[t].blk) EXCEPT !.cb[th[t].blk].shared_count_ = th[t].count + 1]
    /\ sp' = [sp EXCEPT ![th[t].dst] = wp[th[t].src]]
    /\ ret' = IF th[t].op = "lock" THEN "handle" ELSE "constructed"
    /\ th' = [th EXCEPT ![t] = Idle]
    /\ UNCHANGED <<wp, others>>

\* compare_exchange_weak fails: count is set to the value read, which is
\* another one, or the same one when the failure is spurious.
mt_cas_failure(t) ==
    /\ th[t].pc = "cas"
    /\ CanUpgrade(th[t].count)
    /\ mem' = Touch(mem, th[t].blk)
    /\ th' = [th EXCEPT ![t].count = cb_use_count(mem, th[t].blk)]
    /\ UNCHANGED <<sp, wp, ret, others>>

NextMT ==
    \/ \E t \in Threads, h, o \in SPMT : mt_shared_copy(t, h, o)
    \/ \E t \in Threads, h \in SPMT : mt_shared_release(t, h)
    \/ \E t \in Threads : mt_dispose(t)
    \/ \E t \in Threads : mt_release_weak(t)
    \/ \E t \in Threads : mt_destroy(t)
    \/ \E t \in Threads, w \in WPMT, h \in SPMT : mt_weak_from_shared(t, w, h)
    \/ \E t \in Threads, w, o \in WPMT : mt_weak_copy(t, w, o)
    \/ \E t \in Threads, w \in WPMT : mt_weak_release(t, w)
    \/ \E t \in Threads, w \in WPMT, h \in SPMT, op \in {"lock", "ctor"} : mt_upgrade_begin(t, w, h, op)
    \/ \E t \in Threads : mt_upgrade_fail(t)
    \/ \E t \in Threads : mt_cas_success(t)
    \/ \E t \in Threads : mt_cas_failure(t)

SpecMT == InitMT /\ [][NextMT]_vars

\* The threads start with a shared_ptr in every slot and a weak_ptr in
\* every slot, all of block 1, which was built from a raw pointer.
InitUpgrade ==
    /\ sp = [h \in SPMT |-> Handle1]
    /\ wp = [w \in WPMT |-> Handle1]
    /\ mem = [cb |-> [b \in Blocks |->
                        IF b = 1
                        THEN [alloc |-> "live", variant |-> "separate",
                              shared_count_ |-> Cardinality(SPMT),
                              weak_count_ |-> Cardinality(WPMT) + InitialWeak,
                              ptr_ |-> 1, dispose_calls |-> 0, destroy_calls |-> 0]
                        ELSE NoBlock],
              obj |-> [b \in Blocks |->
                        IF b = 1 THEN [state |-> "live", dtor_runs |-> 0] ELSE NoObject],
              uaf |-> FALSE]
    /\ ret = "void"
    /\ th = [t \in Threads |-> Idle]
    /\ bench = Absent /\ up = Absent /\ al = Absent /\ hb = Absent

\* The calls of SpecMT that read or change the strong count: the upgrade
\* of a weak_ptr, and the copies and releases of shared_ptrs that run
\* beside it (with the disposal a last release starts); the threads keep
\* their weak_ptrs.
NextUpgrade ==
    \/ \E t \in Threads, h, o \in SPMT : mt_shared_copy(t, h, o)
    \/ \E t \in Threads, h \in SPMT : mt_shared_release(t, h)
    \/ \E t \in Threads : mt_dispose(t)
    \/ \E t \in Threads : mt_release_weak(t)
    \/ \E t \in Threads, w \in WPMT, h \in SPMT, op \in {"lock", "ctor"} : mt_upgrade_begin(t, w, h, op)
    \/ \E t \in Threads : mt_upgrade_fail(t)
    \/ \E t \in Threads : mt_cas_success(t)
    \/ \E t \in Threads : mt_cas_failure(t)

\* The scheduling the threads run under: a thread inside
\* try_add_shared_ref keeps executing its loop (weak fairness of its steps),
\* and a compare_exchange_weak that is attempted again and again, with the
\* expected value equal to the counter at infinitely many of the attempts,
\* does not fail every time (strong fairness of the success).
FairMT ==
    \A t \in Threads :
        /\ WF_vars(mt_upgrade_fail(t) \/ mt_cas_success(t) \/ mt_cas_failure(t))
        /\ SF_vars(mt_cas_success(t))

SpecMTFair == InitUpgrade /\ [][NextUpgrade]_vars /\ FairMT

\* ---------------------------------- SpecBench: benchmark.cpp, the threads
\* test_thread_safety: shared_obj is made with make_shared and lives in the
\* main thread until every thread is joined; every thread runs
\*     for (i = 0; i < operations_per_thread; ++i) {
\*         auto local_copy = shared_obj;
\*         local_copy->set_value(local_copy->get_value() + 1);
\*     }
\* The threads read the handle shared_obj and nobody writes it. get_value
\* and set_value are plain reads and writes of one int; they are steps of
\* their own, so that an increment of the value can be lost.
shared_obj == MaxThreads + 1

local_copy(t) == t

InitBench ==
    /\ sp = [h \in SPMT |-> IF h = shared_obj THEN Handle1 ELSE Empty]
    /\ wp = [w \in WPMT |-> Empty]
    /\ mem = [cb |-> [b \in Blocks |->
                        IF b = 1
                        THEN [alloc |-> "live", variant |-> "inline",
                              shared_count_ |-> InitialShared,
                              weak_count_ |-> InitialWeak,
                              ptr_ |-> 1, dispose_calls |-> 0, destroy_calls |-> 0]
                        ELSE NoBlock],
              obj |-> [b \in Blocks |->
                        IF b = 1 THEN [state |-> "live", dtor_runs |-> 0] ELSE NoObject],
              uaf |-> FALSE]
    /\ ret = "void"
    /\ th = [t \in Threads |-> Idle]
    /\ bench = NoRun
    /\ up = Absent
    /\ al = Absent
    /\ hb = Absent

\* auto local_copy = shared_obj: the copy constructor, one fetch_add
bench_copy(t) ==
    /\ IsIdle(t)
    /\ bench.iter[t] < MaxIterations
    /\ sp' = [sp EXCEPT ![local_copy(t)] = sp[shared_obj]]
    /\ mem' = CopyShared(mem, sp[shared_obj])
    /\ th' = [th EXCEPT ![t] = Busy("get", sp[shared_obj].ctrl_block_)]
    /\ UNCHANGED <<wp, ret, bench, up, al, hb>>

\* local_copy->get_value()
bench_get_value(t) ==
    /\ th[t].pc = "get"
    /\ th' = [th EXCEPT ![t].pc = "set", ![t].count = bench.value]
    /\ UNCHANGED <<mem, sp, wp, ret, bench, up, al, hb>>

\* local_copy->set_value(... + 1)
bench_set_value(t) ==
    /\ th[t].pc = "set"
    /\ bench' = [bench EXCEPT !.value = th[t].count + 1]
    /\ th' = [th EXCEPT ![t].pc = "drop", ![t].count = 0]
    /\ UNCHANGED <<mem, sp, wp, ret, up, al, hb>>

\* the end of the loop body: ~shared_ptr() of local_copy, one fetch_sub; a
\* thread that took the count to 0 would go on to dispose().
bench_drop(t) ==
    /\ th[t].pc = "drop"
    /\ sp' = [sp EXCEPT ![local_copy(t)] = Empty]
    /\ LET b == sp[local_copy(t)].ctrl_block_
       IN  /\ mem' = FetchSubShared(mem, b)
           /\ th' = [th EXCEPT ![t] =
                       IF WasLast(mem.cb[b].shared_count_)
                       THEN Busy("dispose", b) ELSE Idle]
    /\ bench' = [bench EXCEPT !.iter[t] = @ + 1]
    /\ UNCHANGED <<wp, ret, up, al, hb>>

NextBench ==
    \/ \E t \in Threads : bench_copy(t)
    \/ \E t \in Threads : bench_get_value(t)
    \/ \E t \in Threads : bench_set_value(t)
    \/ \E t \in Threads : bench_drop(t)

SpecBench == InitBench /\ [][NextBench]_vars

\* ------------------------------------------- SpecUnique: unique_ptr, calls
\* The unique_ptr variables of one program have one Deleter type; a deleter
\* object is either Deleter() ("default") or one the caller passed to the
\* constructor ("custom"). Moving a deleter leaves the source as it was.
Deleters == {"default", "custom"}

\* Addresses at which nothing was allocated yet; new T takes the lowest.
FreshAddrs(U) == {a \in Addrs : U.obj[a].state = "none"}

NewAddr(U) == CHOOSE a \in FreshAddrs(U) : \A c \in FreshAddrs(U) : a <= c

\* new T(...)
new_object(U, a) == [U EXCEPT !.obj[a] = [NoTarget EXCEPT !.state = "live"]]

\* The pointers a correct caller passes to a constructor or to reset(p):
\* nullptr, the result of a new-expression, or a pointer that release()
\* handed back and that was not given to a unique_ptr since.
PointerArgs(U) ==
    {Null} \cup U.raw \cup (IF FreshAddrs(U) = {} THEN {} ELSE {NewAddr(U)})

\* The argument p is evaluated before the call: a new-expression allocates.
Given(U, p) == IF p \in FreshAddrs(U) THEN new_object(U, p) ELSE U

\* deleter_(old) in reset(p), called on the unique_ptr x
invoke_deleter(U, x, old, p) ==
    [U EXCEPT !.obj[old] =
        [state |-> "deleted",
         deleter_calls |-> @.deleter_calls + 1,
         deleted_by    |-> U.u[x].deleter_,
         ptr_at_delete |-> U.u[x].ptr_,
         reset_arg     |-> p]]

reset_StoresAfterDelete(U, x, p) ==
    LET old == U.u[x].ptr_
        U1  == IF old # Null THEN invoke_deleter(U, x, old, p) ELSE U
    IN  [U1 EXCEPT !.u[x].ptr_ = p, !.raw = @ \ {p}]

reset_Leaks(U, x, p) == [U EXCEPT !.u[x].ptr_ = p, !.raw = @ \ {p}]

\* reset(pointer p = pointer()): old = ptr_; ptr_ = p; if (old) deleter_(old);
reset(U, x, p) ==
    LET old == U.u[x].ptr_
        U1  == [U EXCEPT !.u[x].ptr_ = p, !.raw = @ \ {p}]
    IN  IF old # Null THEN invoke_deleter(U1, x, old, p) ELSE U1

release_Deletes(U, x) ==
    LET p == U.u[x].ptr_
    IN  [reset(U, x, Null) EXCEPT !.ret = p]

\* release(): p = ptr_; ptr_ = nullptr; return p;
release(U, x) ==
    LET p == U.u[x].ptr_
    IN  [U EXCEPT !.u[x].ptr_ = Null, !.ret = p, !.raw = @ \cup ({p} \ {Null})]

UnusedUnique(x) == up.u[x].ptr_ = Null

\* explicit unique_ptr(pointer) (d = "default"), unique_ptr(pointer, deleter)
\* (d = "custom"); unique_ptr() and unique_ptr(nullptr) are p = Null.
unique_ptr_raw(x, p, d) ==
    /\ UnusedUnique(x)
    /\ p \in PointerArgs(up)
    /\ up' = [Given(up, p) EXCEPT !.u[x] = [ptr_ |-> p, deleter_ |-> d],
                                   !.raw = @ \ {p}]
    /\ UNCHANGED <<mem, sp, wp, ret, th, bench, al, hb>>

\* make_unique<T>(args...): unique_ptr<T>(new T(args...))
make_unique(x) ==
    /\ UnusedUnique(x)
    /\ FreshAddrs(up) # {}
    /\ LET p == NewAddr(up)
       IN  up' = [new_object(up, p) EXCEPT !.u[x] = [ptr_ |-> p, deleter_ |-> "default"]]
    /\ UNCHANGED <<mem, sp, wp, ret, th, bench, al, hb>>

\* unique_ptr(unique_ptr&& other)
unique_ptr_move(x, o) ==
    /\ UnusedUnique(x)
    /\ x # o
    /\ up' = [up EXCEPT !.u[x] = up.u[o], !.u[o].ptr_ = Null]
    /\ UNCHANGED <<mem, sp, wp, ret, th, bench, al, hb>>

\* ~unique_ptr(): reset(); the variable is gone
unique_ptr_dtor(x) ==
    /\ up' = [reset(up, x, Null) EXCEPT !.u[x] = EmptyUnique]
    /\ UNCHANGED <<mem, sp, wp, ret, th, bench, al, hb>>

\* operator=(unique_ptr&& other): reset(); ptr_ = other.ptr_;
\* deleter_ = std::move(other.deleter_); other.ptr_ = nullptr;
\* x = o is the self-assignment p = std::move(p).
unique_ptr_assign_move(x, o) ==
    /\ LET U1 == reset(up, x, Null)
           U2 == [U1 EXCEPT !.u[x].ptr_ = U1.u[o].ptr_]
           U3 == [U2 EXCEPT !.u[x].deleter_ = U2.u[o].deleter_]
       IN  up' = [U3 EXCEPT !.u[o].ptr_ = Null]
    /\ UNCHANGED <<mem, sp, wp, ret, th, bench, al, hb>>

\* operator=(nullptr_t): reset()
unique_ptr_assign_null(x) ==
    /\ up' = reset(up, x, Null)
    /\ UNCHANGED <<mem, sp, wp, ret, th, bench, al, hb>>

unique_ptr_release(x) ==
    /\ up' = release(up, x)
    /\ UNCHANGED <<mem, sp, wp, ret, th, bench, al, hb>>

unique_ptr_reset(x, p) ==
    /\ p \in PointerArgs(up)
    /\ up' = reset(Given(up, p), x, p)
    /\ UNCHANGED <<mem, sp, wp, ret, th, bench, al, hb>>

\* swap(unique_ptr& other): std::swap(ptr_, ...); std::swap(deleter_, ...)
unique_ptr_swap(x, o) ==
    /\ x < o
    /\ up' = [up EXCEPT !.u[x] = up.u[o], !.u[o] = up.u[x]]
    /\ UNCHANGED <<mem, sp, wp, ret, th, bench, al, hb>>

NextUnique ==
    \/ \E x \in UP, p \in {Null} \cup Addrs, d \in Deleters : unique_ptr_raw(x, p, d)
    \/ \E x \in UP : make_unique(x)
    \/ \E x, o \in UP : unique_ptr_move(x, o)
    \/ \E x \in UP : unique_ptr_dtor(x)
    \/ \E x, o \in UP : unique_ptr_assign_move(x, o)
    \/ \E x \in UP : unique_ptr_assign_null(x)
    \/ \E x \in UP : unique_ptr_release(x)
    \/ \E x \in UP, p \in {Null} \cup Addrs : unique_ptr_reset(x, p)
    \/ \E x, o \in UP : unique_ptr_swap(x, o)

SpecUnique == InitUnique /\ [][NextUnique]_vars

\* ------------------------------------- SpecAlloc: allocate_shared, calls
\* Storage the caller's allocator has not handed out; a block of storage is
\* not handed out a second time.
FreshStorage == {b \in FreshBlocks : al[b].storage = "none"}

\* AllocTraits::allocate(rebound_alloc, 1)
allocate(A, b) ==
    [A EXCEPT ![b].storage = "allocated", ![b].allocate_calls = @ + 1]

deallocate_Leak(A, b) == A

\* AllocTraits::deallocate(rebound_alloc, ctrl_block, 1)
deallocate(A, b) ==
    [A EXCEPT ![b].storage = "deallocated", ![b].deallocate_calls = @ + 1]

\* AllocTraits::construct(rebound_alloc, ctrl_block, args...): the
\* constructor of inline_control_block builds the object in storage_; when
\* that throws, neither the object nor the control block has been built.
construct(M, b, throws) ==
    IF throws THEN M ELSE make_inline_control_block(M, b)

\* allocate_shared<T>(alloc, args...); throws: the constructor of T throws
allocate_shared(h, throws) ==
    /\ Unused(sp[h])
    /\ FreshStorage # {}
    /\ LET b  == CHOOSE c \in FreshStorage : \A d \in FreshStorage : c <= d
           A1 == allocate(al, b)
       IN  IF throws
           THEN /\ al' = deallocate(A1, b)
                /\ mem' = construct(mem, b, TRUE)
                /\ ret' = "exception"
                /\ UNCHANGED sp
           ELSE /\ al' = A1
                /\ mem' = construct(mem, b, FALSE)
                /\ sp' = [sp EXCEPT ![h] = [ptr_ |-> b, ctrl_block_ |-> b]]
                /\ ret' = "void"
    /\ UNCHANGED <<wp, th, bench, up, hb>>

\* inline_control_block::destroy is delete this, also for a block whose
\* memory came from AllocTraits::allocate and was built by construct: the
\* operand of delete was not made by a new-expression, which is undefined.
\* The memory goes to operator delete ("deleted") or the heap is damaged
\* ("corrupted"); deallocate of the caller's allocator is not called.
\* M2 is the memory after the call that may have run destroy().
delete_this(M2, outcome) ==
    [b \in Blocks |->
        IF mem.cb[b].alloc = "live" /\ M2.cb[b].alloc = "freed"
               /\ al[b].storage = "allocated"
        THEN [al[b] EXCEPT !.storage = outcome]
        ELSE al[b]]

\* ~shared_ptr() on a shared_ptr of an allocate_shared block
alloc_shared_ptr_dtor(h, outcome) ==
    /\ sp' = [sp EXCEPT ![h] = Empty]
    /\ LET M2 == DropShared(mem, sp[h])
       IN  /\ mem' = M2
           /\ al' = delete_this(M2, outcome)
    /\ ret' = "void"
    /\ UNCHANGED <<wp, th, bench, up, hb>>

\* ~weak_ptr() on a weak_ptr of an allocate_shared block
alloc_weak_ptr_dtor(w, outcome) ==
    /\ wp' = [wp EXCEPT ![w] = Empty]
    /\ LET M2 == DropWeak(mem, wp[w])
       IN  /\ mem' = M2
           /\ al' = delete_this(M2, outcome)
    /\ ret' = "void"
    /\ UNCHANGED <<sp, th, bench, up, hb>>

\* The shared_ptr that allocate_shared returns is used like any other.
NextAlloc ==
    \/ \E h \in SP, throws \in BOOLEAN : allocate_shared(h, throws)
    \/ \E h, o \in SP : shared_ptr_copy(h, o)
    \/ \E h \in SP, outcome \in {"deleted", "corrupted"} : alloc_shared_ptr_dtor(h, outcome)
    \/ \E w \in WP, h \in SP : weak_ptr_from_shared(w, h)
    \/ \E w \in WP, outcome \in {"deleted", "corrupted"} : alloc_weak_ptr_dtor(w, outcome)
    \/ \E w \in WP, h \in SP : lock(w, h)

SpecAlloc == InitAlloc /\ [][NextAlloc]_vars

\* ------------------------------ SpecOOM: operator new / allocate may throw
make_control_block_bad_alloc_KeepsBlock(M, b, p) ==
    [M EXCEPT !.cb[b] = [NoBlock EXCEPT !.alloc = "live", !.ptr_ = p],
              !.obj[b] = [state |-> "live", dtor_runs |-> 0]]

\* make_control_block(ptr, deleter) when operator new throws std::bad_alloc:
\* there is no block; the object the caller built with new T is still there,
\* and nothing in make_control_block or in the constructor deletes it.
make_control_block_bad_alloc(M, b, p) ==
    [M EXCEPT !.obj[b] = [state |-> "live", dtor_runs |-> 0]]

\* make_inline_control_block(args...) when operator new throws: no block, and
\* the object was not built.
make_inline_control_block_bad_alloc(M, b) == M

\* shared_ptr(U* ptr), make_control_block throws; no shared_ptr is built.
shared_ptr_raw_bad_alloc(h) ==
    /\ Unused(sp[h])
    /\ FreshBlocks # {}
    /\ mem' = make_control_block_bad_alloc(mem, NewBlock, NewBlock)
    /\ ret' = "bad_alloc"
    /\ UNCHANGED <<sp, wp, th, others>>

\* reset(U* ptr): the constructor of the temporary throws, before swap.
shared_ptr_reset_raw_bad_alloc(h) ==
    /\ FreshBlocks # {}
    /\ mem' = make_control_block_bad_alloc(mem, NewBlock, NewBlock)
    /\ ret' = "bad_alloc"
    /\ UNCHANGED <<sp, wp, th, others>>

\* make_shared<T>(args...), make_inline_control_block throws
make_shared_bad_alloc(h) ==
    /\ Unused(sp[h])
    /\ FreshBlocks # {}
    /\ mem' = make_inline_control_block_bad_alloc(mem, NewBlock)
    /\ ret' = "bad_alloc"
    /\ UNCHANGED <<sp, wp, th, others>>

\* allocate_shared<T>(alloc, args...), AllocTraits::allocate throws: the
\* call is over before the try block.
allocate_shared_bad_alloc(h) ==
    /\ Unused(sp[h])
    /\ FreshStorage # {}
    /\ ret' = "bad_alloc"
    /\ UNCHANGED <<mem, sp, wp, th, others>>

NextOOM ==
    \/ \E h \in SP : shared_ptr_raw_bad_alloc(h)
    \/ \E h \in SP : shared_ptr_reset_raw_bad_alloc(h)
    \/ \E h \in SP : make_shared_bad_alloc(h)
    \/ \E h \in SP : allocate_shared_bad_alloc(h)
    \/ \E h \in SP : shared_ptr_raw(h, FALSE)
    \/ \E h \in SP : shared_ptr_reset_raw(h, FALSE)
    \/ \E h \in SP : make_shared(h)
    \/ \E h \in SP : allocate_shared(h, FALSE)
    \/ \E h, o \in SP : shared_ptr_copy(h, o)
    \/ \E h \in SP : shared_ptr_dtor(h)
    \/ \E h \in SP : shared_ptr_reset(h)
    \/ \E w \in WP, h \in SP : weak_ptr_from_shared(w, h)
    \/ \E w \in WP : weak_ptr_dtor(w)

SpecOOM == InitAlloc /\ [][NextOOM]_vars

\* --------------------------- SpecHB: SpecMT with the C++ memory orderings
\* The threads also write to the managed object through their shared_ptrs
\* (plain writes). hb.written is the set of threads that have written;
\* hb.view[t] is the set of threads whose latest write happens before the
\* point thread t has reached; hb.rel is the set of threads whose latest
\* write happens before a release operation in the release sequence that the
\* current value of shared_count_ belongs to (every operation on the counter
\* is a read-modify-write, so the release sequence is never broken).
memory_order_RelaxedRelease ==
    [add_shared_ref |-> "acq_rel", release_shared |-> "relaxed",
     try_add_load   |-> "acquire", try_add_success |-> "acq_rel"]

\* The std::memory_order arguments of the operations on shared_count_.
memory_order ==
    [add_shared_ref |-> "acq_rel", release_shared |-> "acq_rel",
     try_add_load   |-> "acquire", try_add_success |-> "acq_rel"]

Acquires(order) == order \in {"acquire", "acq_rel", "seq_cst"}
Releases(order) == order \in {"release", "acq_rel", "seq_cst"}

NoViews == [view |-> [t \in Threads |-> {}], rel |-> {}, written |-> {}]

\* An atomic operation of thread t on shared_count_ that reads the current
\* value (acquire side) and, when it writes, publishes (release side).
AtomicOp(H, t, order, writes) ==
    [H EXCEPT !.view[t] = IF Acquires(order) THEN @ \cup H.rel ELSE @,
              !.rel     = IF writes /\ Releases(order) THEN @ \cup H.view[t] ELSE @]

\* A plain write of thread t to the object: no other thread has observed it.
PlainWrite(H, t) ==
    [view    |-> [s \in Threads |-> IF s = t THEN H.view[t] \cup {t} ELSE H.view[s] \ {t}],
     rel     |-> H.rel \ {t},
     written |-> H.written \cup {t}]

InitHB ==
    /\ \E hs \in (SUBSET SPMT) \ {{}}, ws \in SUBSET WPMT :
          /\ sp = [h \in SPMT |-> IF h \in hs THEN Handle1 ELSE Empty]
          /\ wp = [w \in WPMT |-> IF w \in ws THEN Handle1 ELSE Empty]
          /\ mem = [cb |-> [b \in Blocks |->
                              IF b = 1
                              THEN [alloc |-> "live", variant |-> "separate",
                                    shared_count_ |-> Cardinality(hs),
                                    weak_count_ |-> Cardinality(ws) + InitialWeak,
                                    ptr_ |-> 1, dispose_calls |-> 0, destroy_calls |-> 0]
                              ELSE NoBlock],
                    obj |-> [b \in Blocks |->
                              IF b = 1 THEN [state |-> "live", dtor_runs |-> 0] ELSE NoObject],
                    uaf |-> FALSE]
    /\ ret = "void"
    /\ th = [t \in Threads |-> Idle]
    /\ bench = Absent
    /\ up = Absent
    /\ al = Absent
    /\ hb = NoViews

\* *p = ... through a shared_ptr of the thread
hb_write(t, h) ==
    /\ IsIdle(t) /\ OwnerSP(h) = t
    /\ sp[h].ptr_ # Null
    /\ hb' = PlainWrite(hb, t)
    /\ UNCHANGED <<mem, sp, wp, ret, th, bench, up, al>>

\* shared_ptr(const shared_ptr&): fetch_add(1, acq_rel)
hb_shared_copy(t, h, o) ==
    /\ IsIdle(t) /\ OwnerSP(h) = t /\ OwnerSP(o) = t /\ h # o
    /\ Unused(sp[h])
    /\ sp[o].ctrl_block_ # Null
    /\ mem' = CopyShared(mem, sp[o])
    /\ sp' = [sp EXCEPT ![h] = sp[o]]
    /\ hb' = AtomicOp(hb, t, memory_order.add_shared_ref, TRUE)
    /\ UNCHANGED <<wp, ret, th, bench, up, al>>

\* ~shared_ptr(), up to the fetch_sub(1, acq_rel) of release_shared
hb_shared_release(t, h) ==
    /\ IsIdle(t) /\ OwnerSP(h) = t
    /\ sp[h].ctrl_block_ # Null
    /\ sp' = [sp EXCEPT ![h] = Empty]
    /\ LET b == sp[h].ctrl_block_
       IN  /\ mem' = FetchSubShared(mem, b)
           /\ th' = [th EXCEPT ![t] =
                       IF WasLast(mem.cb[b].shared_count_)
                       THEN Busy("dispose", b) ELSE Idle]
    /\ hb' = AtomicOp(hb, t, memory_order.release_shared, TRUE)
    /\ UNCHANGED <<wp, ret, bench, up, al>>

\* lock(), up to the load(acquire) of try_add_shared_ref
hb_upgrade_begin(t, w, h) ==
    /\ IsIdle(t) /\ OwnerWP(w) = t /\ OwnerSP(h) = t
    /\ Unused(sp[h])
    /\ wp[w].ctrl_block_ # Null
    /\ mem' = Touch(mem, wp[w].ctrl_block_)
    /\ th' = [th EXCEPT ![t] =
                [pc |-> "cas", blk |-> wp[w].ctrl_block_,
                 count |-> cb_use_count(mem, wp[w].ctrl_block_),
                 dst |-> h, src |-> w, op |-> "lock"]]
    /\ hb' = AtomicOp(hb, t, memory_order.try_add_load, FALSE)
    /\ UNCHANGED <<sp, wp, ret, bench, up, al>>

\* compare_exchange_weak(count, count + 1, acq_rel, relaxed) succeeds
hb_cas_success(t) ==
    /\ th[t].pc = "cas"
    /\ CanUpgrade(th[t].count)
    /\ compare_exchange_matches(cb_use_count(mem, th[t].blk), th[t].count)
    /\ mem' = [Touch(mem, th[t].blk) EXCEPT !.cb[th[t].blk].shared_count_ = th[t].count + 1]
    /\ sp' = [sp EXCEPT ![th[t].dst] = wp[th[t].src]]
    /\ ret' = "handle"
    /\ th' = [th EXCEPT ![t] = Idle]
    /\ hb' = AtomicOp(hb, t, memory_order.try_add_success, TRUE)
    /\ UNCHANGED <<wp, bench, up, al>>

\* A failed compare_exchange_weak and the load that found 0 are relaxed or
\* change nothing that is observed here; dispose(), release_weak and
\* destroy() are the steps of SpecMT.
NextHB ==
    \/ \E t \in Threads, h \in SPMT : hb_write(t, h)
    \/ \E t \in Threads, h, o \in SPMT : hb_shared_copy(t, h, o)
    \/ \E t \in Threads, h \in SPMT : hb_shared_release(t, h)
    \/ \E t \in Threads, w \in WPMT, h \in SPMT : hb_upgrade_begin(t, w, h)
    \/ \E t \in Threads : hb_cas_success(t)
    \/ \E t \in Threads : mt_cas_failure(t)
    \/ \E t \in Threads : mt_upgrade_fail(t)
    \/ \E t \in Threads : mt_dispose(t)
    \/ \E t \in Threads : mt_release_weak(t)
    \/ \E t \in Threads : mt_destroy(t)

SpecHB == InitHB /\ [][NextHB]_vars

\* ----------------------- SpecCycle: managed objects that hold a shared_ptr
\* The managed type has a data member of type shared_ptr (struct Node {
\* shared_ptr<Node> next; }); member(b) is the slot in sp of the member of
\* object b, next to the slots SP of the shared_ptr variables of the program.
\* The objects are made with new and handed to shared_ptr(U* ptr).
member(b) == MaxShared + b

\* The objects the program can get at: those a shared_ptr variable points
\* to (get, operator->), and those reached from them through the members.
RECURSIVE Follow(_, _)
Follow(S, n) ==
    IF n = 0 THEN S
    ELSE Follow(S \cup ({sp[member(b)].ctrl_block_ : b \in S} \ {Null}), n - 1)

Reachable == Follow({sp[h].ctrl_block_ : h \in SP} \ {Null}, MaxBlocks)

\* release_shared on block b, on the pair W = [mem, sp]: when the fetch_sub
\* returns 1, dispose() runs the destructor of the object, which destroys
\* the object's member (~shared_ptr: release_shared on the member's block,
\* and so on), and then release_weak() follows.
RECURSIVE cy_release(_, _)
cy_release(W, b) ==
    LET old == W.mem.cb[b].shared_count_
        M1  == FetchSubShared(W.mem, b)
    IN  IF ~WasLast(old) THEN [W EXCEPT !.mem = M1]
        ELSE LET tgt == W.sp[member(b)].ctrl_block_
                 W2  == [mem |-> dispose(M1, b),
                         sp  |-> [W.sp EXCEPT ![member(b)] = Empty]]
                 W3  == IF tgt # Null THEN cy_release(W2, tgt) ELSE W2
             IN  [W3 EXCEPT !.mem = release_weak(W3.mem, b)]

InitCycle ==
    /\ mem = [cb |-> [b \in Blocks |-> NoBlock],
              obj |-> [b \in Blocks |-> NoObject],
              uaf |-> FALSE]
    /\ sp = [h \in SP \cup {member(b) : b \in Blocks} |-> Empty]
    /\ wp = [w \in WP |-> Empty]
    /\ ret = "void"
    /\ th = [t \in Threads |-> Idle]
    /\ bench = Absent /\ up = Absent /\ al = Absent /\ hb = Absent

\* p->next = o; (operator=(const shared_ptr&): shared_ptr(other).swap(*this))
\* on the member of an object b the program can get at; o may be empty.
cy_assign_member(b, o) ==
    /\ b \in Reachable
    /\ mem.obj[b].state = "live"
    /\ LET old == sp[member(b)].ctrl_block_
           W1  == [mem |-> CopyShared(mem, sp[o]),
                   sp  |-> [sp EXCEPT ![member(b)] = sp[o]]]
           W2  == IF old # Null THEN cy_release(W1, old) ELSE W1
       IN  /\ sp' = W2.sp
           /\ mem' = W2.mem
    /\ ret' = "void"
    /\ UNCHANGED <<wp, th, others>>

\* ~shared_ptr() of a variable of the program
cy_shared_ptr_dtor(h) ==
    /\ sp[h].ctrl_block_ # Null
    /\ LET W == cy_release([mem |-> mem, sp |-> [sp EXCEPT ![h] = Empty]],
                           sp[h].ctrl_block_)
       IN  /\ sp' = W.sp
           /\ mem' = W.mem
    /\ ret' = "void"
    /\ UNCHANGED <<wp, th, others>>

NextCycle ==
    \/ \E h \in SP : shared_ptr_raw(h, FALSE)
    \/ \E h, o \in SP : shared_ptr_copy(h, o)
    \/ \E b \in Blocks, o \in SP : cy_assign_member(b, o)
    \/ \E h \in SP : cy_shared_ptr_dtor(h)
    \/ \E w \in WP, h \in SP : weak_ptr_from_shared(w, h)
    \/ \E w \in WP : weak_ptr_dtor(w)
    \/ \E w \in WP, h \in SP : lock(w, h)

SpecCycle == InitCycle /\ [][NextCycle]_vars

\* ------------------------------------------------------------------ claims
\* The shared_ptr / weak_ptr variables that reference block b.
SharedHolders(b) == {h \in DOMAIN sp : sp[h].ctrl_block_ = b}
WeakHolders(b)   == {w \in DOMAIN wp : wp[w].ctrl_block_ = b}

\* C1 (Spec): after any sequence of calls, a managed object is live exactly
\* when some shared_ptr references its control block; the destructor has run
\* on it never while it is live, and exactly once when it is not.
C1_LiveIffStronglyHeld ==
    \A b \in Blocks :
        mem.obj[b].state # "none" =>
            /\ (mem.obj[b].state = "live") <=> (SharedHolders(b) # {})
            /\ mem.obj[b].dtor_runs = (IF mem.obj[b].state = "live" THEN 0 ELSE 1)

\* One object was destroyed (once) while another is live with two owners.
C1_Witness ==
    \E b, c \in Blocks :
        /\ mem.obj[b].state = "destroyed" /\ mem.obj[b].dtor_runs = 1
        /\ mem.obj[c].state = "live" /\ Cardinality(SharedHolders(c)) = 2

\* C2 (SpecMT): under every interleaving of upgrades and releases, a strong
\* count that is 0 stays 0; a compare_exchange_weak that succeeds had observed
\* a count >= 1; and a shared_ptr that has a block never refers to an object
\* dispose() has run on.
C2_HandlesAlive ==
    \A h \in DOMAIN sp :
        sp[h].ctrl_block_ # Null =>
            /\ mem.obj[sp[h].ctrl_block_].state = "live"
            /\ mem.cb[sp[h].ctrl_block_].dispose_calls = 0

C2_NoResurrection ==
    /\ []C2_HandlesAlive
    /\ [][ /\ \A b \in Blocks :
                  (mem.cb[b].alloc # "none" /\ mem.cb[b].shared_count_ = 0)
                      => mem'.cb[b].shared_count_ = 0
            /\ \A t \in Threads : mt_cas_success(t) => th[t].count >= 1
          ]_vars

\* An upgrade has read a count >= 1 and, before its compare_exchange_weak,
\* the last owner has dropped the count to 0.
C2_Witness ==
    \E t \in Threads :
        /\ th[t].pc = "cas" /\ th[t].count >= 1
        /\ mem.cb[th[t].blk].shared_count_ = 0

\* C3 (SpecMT): under every interleaving dispose() and destroy() run at most
\* once per block, no counter of a destroyed block is accessed, and whoever
\* can still reach a block (a handle, a call in progress) finds it allocated.
C3_TeardownOnce ==
    /\ ~mem.uaf
    /\ \A b \in Blocks :
          /\ mem.cb[b].dispose_calls <= 1
          /\ mem.cb[b].destroy_calls <= 1
    /\ \A h \in DOMAIN sp :
          sp[h].ctrl_block_ # Null => mem.cb[sp[h].ctrl_block_].alloc = "live"
    /\ \A w \in DOMAIN wp :
          wp[w].ctrl_block_ # Null => mem.cb[wp[w].ctrl_block_].alloc = "live"
    /\ \A t \in Threads :
          th[t].pc # "idle" => mem.cb[th[t].blk].alloc = "live"

\* A block was torn down: disposed once, destroyed once, by calls that ran
\* while another thread was inside an upgrade that then failed.
C3_Witness ==
    /\ mem.cb[1].alloc = "freed"
    /\ mem.cb[1].dispose_calls = 1 /\ mem.cb[1].destroy_calls = 1
    /\ ret = "empty"

\* C4 (Spec): use_count() of a handle is the number of shared_ptr handles of
\* its block (1 when fresh, N + 1 after N copies, one less after each
\* destruction or reset of one of them), and 0 for an empty handle.
C4_UseCountCountsHandles ==
    \A h \in SP :
        use_count(sp[h]) =
            IF sp[h].ctrl_block_ = Null THEN 0
            ELSE Cardinality(SharedHolders(sp[h].ctrl_block_))

\* A handle and its copy both report 2, next to an empty handle's 0 being
\* ruled out: both variables are in use.
C4_Witness ==
    \E h, g \in SP :
        /\ h # g /\ sp[h] = sp[g] /\ sp[h].ctrl_block_ # Null
        /\ use_count(sp[h]) = 2 /\ use_count(sp[g]) = 2

\* C5 (Spec): for a weak_ptr that has a block, expired() is false exactly
\* while some shared_ptr of that block exists, and once it is true it stays
\* true for as long as the weak_ptr keeps the block.
C5_ExpiredIffNoOwner ==
    \A w \in WP :
        wp[w].ctrl_block_ # Null =>
            (expired(wp[w]) <=> SharedHolders(wp[w].ctrl_block_) = {})

C5_ExpiredExactly ==
    /\ []C5_ExpiredIffNoOwner
    /\ [][ \A w \in WP :
                (wp[w].ctrl_block_ # Null /\ expired(wp[w]) /\ wp'[w] = wp[w])
                    => expired(wp[w])'
          ]_vars

\* A weak_ptr outlived the last shared_ptr of its object.
C5_Witness ==
    \E w \in WP :
        /\ wp[w].ctrl_block_ # Null /\ expired(wp[w])
        /\ mem.obj[wp[w].ctrl_block_].state = "destroyed"

\* C6 (Spec): lock() on an expired weak_ptr returns an empty shared_ptr and
\* changes no counter; lock() on a weak_ptr that is not expired returns a
\* shared_ptr of the same block and object, and the block's use_count() is
\* exactly one more than before the call; destroying a handle lock() returned
\* takes use_count() down by exactly one.
C6_Lock ==
    [][ /\ \A w \in WP, h \in SP :
              lock(w, h) =>
                  IF expired(wp[w])
                  THEN /\ sp'[h] = Empty /\ ~AsBool(sp'[h]) /\ ret' = "empty"
                       /\ \A b \in Blocks :
                             /\ mem'.cb[b].shared_count_ = mem.cb[b].shared_count_
                             /\ mem'.cb[b].weak_count_ = mem.cb[b].weak_count_
                  ELSE /\ sp'[h] = wp[w] /\ sp'[h].ctrl_block_ # Null
                       /\ ret' = "handle"
                       /\ mem.obj[wp[w].ctrl_block_].state = "live"
                             => (AsBool(sp'[h]) /\ sp'[h].ptr_ = wp[w].ctrl_block_)
                       /\ use_count(wp[w])' = use_count(wp[w]) + 1
                       /\ use_count(sp[h])' = use_count(wp[w]) + 1
                       /\ mem'.obj = mem.obj
        /\ \A h \in SP :
              (ret = "handle" /\ sp[h].ctrl_block_ # Null /\ shared_ptr_dtor(h))
                  => mem'.cb[sp[h].ctrl_block_].shared_count_
                         = mem.cb[sp[h].ctrl_block_].shared_count_ - 1
      ]_vars

\* lock() has just returned a handle that shares a live object with another
\* shared_ptr, through a weak_ptr of the same block.
C6_Witness ==
    /\ ret = "handle"
    /\ \E w \in WP :
          /\ wp[w].ctrl_block_ # Null
          /\ Cardinality(SharedHolders(wp[w].ctrl_block_)) = 2
          /\ use_count(wp[w]) = 2
          /\ mem.obj[wp[w].ctrl_block_].state = "live"

\* C7 (Spec): shared_ptr(const weak_ptr&) on a weak_ptr whose block has been
\* disposed throws bad_weak_ptr, changes no counter of any block and creates
\* no handle; on a weak_ptr whose target is live it creates a handle of that
\* block and raises the strong count by exactly one, the weak count by none.
C7_FromWeak ==
    [][ \A h \in SP, w \in WP :
            (wp[w].ctrl_block_ # Null /\ shared_ptr_from_weak(h, w)) =>
                LET b == wp[w].ctrl_block_
                IN  IF mem.cb[b].dispose_calls >= 1
                    THEN /\ ret' = "bad_weak_ptr"
                         /\ mem' = mem
                         /\ sp' = sp
                    ELSE /\ ret' = "constructed"
                         /\ sp'[h] = wp[w]
                         /\ mem'.cb[b].shared_count_ = mem.cb[b].shared_count_ + 1
                         /\ mem'.cb[b].weak_count_ = mem.cb[b].weak_count_
      ]_vars

\* The constructor has just thrown: the weak_ptr's block is disposed, still
\* allocated, and no shared_ptr exists for it.
C7_Witness ==
    /\ ret = "bad_weak_ptr"
    /\ \E w \in WP :
          /\ wp[w].ctrl_block_ # Null
          /\ mem.cb[wp[w].ctrl_block_].dispose_calls = 1
          /\ mem.cb[wp[w].ctrl_block_].alloc = "live"
          /\ SharedHolders(wp[w].ctrl_block_) = {}

\* C8 as stated (Spec): move construction and move assignment of a
\* shared_ptr or weak_ptr change no strong or weak counter of any block, for
\* every state of source and target, leave the source empty and the target
\* with the source's former pointer and block.
C8_MovesChangeNoCounter ==
    [][ LET CountersUnchanged ==
                \A b \in Blocks :
                    /\ mem'.cb[b].shared_count_ = mem.cb[b].shared_count_
                    /\ mem'.cb[b].weak_count_ = mem.cb[b].weak_count_
        IN  /\ \A h, o \in SP :
                  (shared_ptr_move(h, o) \/ shared_ptr_assign_move(h, o)) =>
                      /\ CountersUnchanged
                      /\ sp'[o] = Empty /\ use_count(sp[o])' = 0
                      /\ sp'[h] = sp[o]
            /\ \A w, o \in WP :
                  (weak_ptr_move(w, o) \/ weak_ptr_assign_move(w, o)) =>
                      /\ CountersUnchanged
                      /\ wp'[o] = Empty /\ use_count(wp[o])' = 0
                      /\ wp'[w] = wp[o]
      ]_vars

\* C8 (Spec), amended: a move constructor changes nothing in any block,
\* empties the source and gives the target the source's pointer and block. A
\* move assignment to another variable does the same to source and target,
\* raises no counter, and lowers counters only by releasing the reference
\* the target held before: for a shared_ptr target its block's strong count
\* drops by one (and, when that was the last owner, the weak count by one),
\* for a weak_ptr target its block's weak count drops by one; an empty
\* target changes no counter. A move assignment of a variable to itself
\* changes nothing and leaves the variable as it was.
C8_MoveFrame ==
    [][ LET Released(b) == IF mem.cb[b].shared_count_ = 1 THEN 1 ELSE 0
            HeapSame    == mem' = mem
        IN  /\ (ret' = "void" /\ wp' = wp) =>
                \A h, o \in SP :
                  /\ shared_ptr_move(h, o) =>
                        /\ HeapSame
                        /\ sp'[o] = Empty /\ use_count(sp[o])' = 0
                        /\ sp'[h] = sp[o]
                  /\ shared_ptr_assign_move(h, o) =>
                        IF h = o
                        THEN HeapSame /\ sp' = sp
                        ELSE /\ sp'[o] = Empty /\ use_count(sp[o])' = 0
                             /\ sp'[h] = sp[o]
                             /\ sp[h].ctrl_block_ = Null => HeapSame
                             /\ \A b \in Blocks :
                                   IF b = sp[h].ctrl_block_
                                   THEN /\ mem'.cb[b].shared_count_
                                               = mem.cb[b].shared_count_ - 1
                                        /\ mem'.cb[b].weak_count_
                                               = mem.cb[b].weak_count_ - Released(b)
                                   ELSE /\ mem'.cb[b].shared_count_
                                               = mem.cb[b].shared_count_
                                        /\ mem'.cb[b].weak_count_
                                               = mem.cb[b].weak_count_
            /\ (ret' = "void" /\ sp' = sp) =>
                \A w, o \in WP :
                  /\ weak_ptr_move(w, o) =>
                        /\ HeapSame
                        /\ wp'[o] = Empty /\ use_count(wp[o])' = 0
                        /\ wp'[w] = wp[o]
                  /\ weak_ptr_assign_move(w, o) =>
                        IF w = o
                        THEN HeapSame /\ wp' = wp
                        ELSE /\ wp'[o] = Empty /\ use_count(wp[o])' = 0
                             /\ wp'[w] = wp[o]
                             /\ wp[w].ctrl_block_ = Null => HeapSame
                             /\ \A b \in Blocks :
                                   /\ mem'.cb[b].shared_count_
                                         = mem.cb[b].shared_count_
                                   /\ mem'.cb[b].weak_count_ =
                                         IF b = wp[w].ctrl_block_
                                         THEN mem.cb[b].weak_count_ - 1
                                         ELSE mem.cb[b].weak_count_
      ]_vars

\* The state a move assignment over a target with a block of its own leaves:
\* the source variable empty, the target the only owner of the moved block,
\* the block the target held before disposed and destroyed.
C8_Witness ==
    \E h, o \in SP, b, c \in Blocks :
        /\ h # o /\ b # c
        /\ sp[o] = Empty /\ sp[h].ctrl_block_ = c /\ use_count(sp[h]) = 1
        /\ mem.cb[b].alloc = "freed" /\ mem.cb[b].dispose_calls = 1
        /\ mem.cb[b].shared_count_ = 0 /\ mem.cb[b].weak_count_ = 0

\* C9 (SpecMT): on every block, under every interleaving, dispose() is
\* entered and has run only with the strong count at 0, destroy() is entered
\* and has run only with the weak count at 0, the weak count is 0 only if the
\* strong count is 0, and a destroyed block has had its object disposed.
C9_TeardownOrder ==
    /\ \A b \in Blocks :
          mem.cb[b].alloc # "none" =>
              /\ mem.cb[b].dispose_calls >= 1 => mem.cb[b].shared_count_ = 0
              /\ mem.cb[b].destroy_calls >= 1 => mem.cb[b].weak_count_ = 0
              /\ mem.cb[b].weak_count_ = 0 => mem.cb[b].shared_count_ = 0
              /\ mem.cb[b].alloc = "freed" =>
                    /\ mem.cb[b].dispose_calls >= 1
                    /\ mem.obj[b].state = "destroyed"
    /\ \A t \in Threads :
          /\ th[t].pc = "dispose" => mem.cb[th[t].blk].shared_count_ = 0
          /\ th[t].pc = "release_weak" =>
                /\ mem.cb[th[t].blk].shared_count_ = 0
                /\ mem.cb[th[t].blk].dispose_calls = 1
                /\ mem.cb[th[t].blk].weak_count_ >= 1
          /\ th[t].pc = "destroy" =>
                /\ mem.cb[th[t].blk].weak_count_ = 0
                /\ mem.cb[th[t].blk].dispose_calls = 1

\* The last owner has disposed the object and is about to give up the
\* owners' weak reference, while a weak_ptr of another thread keeps the
\* weak count above it.
C9_Witness ==
    \E t \in Threads :
        /\ th[t].pc = "release_weak"
        /\ mem.cb[th[t].blk].dispose_calls = 1
        /\ mem.cb[th[t].blk].shared_count_ = 0
        /\ mem.cb[th[t].blk].weak_count_ = 2
        /\ \E w \in WPMT : OwnerWP(w) # t /\ wp[w].ctrl_block_ = th[t].blk

\* C10 (Spec): a block that a weak_ptr references is allocated, also after
\* its object has been disposed, and then expired() is true and use_count()
\* is 0 on that weak_ptr; an allocated block is destroyed exactly when no
\* shared_ptr and no weak_ptr references it any more; ~weak_ptr() on a
\* weak_ptr that has a block lowers that block's weak count by exactly one
\* and no other counter.
C10_BlockAlive ==
    /\ \A w \in WP :
          wp[w].ctrl_block_ # Null =>
              /\ mem.cb[wp[w].ctrl_block_].alloc = "live"
              /\ mem.cb[wp[w].ctrl_block_].dispose_calls >= 1 =>
                    (expired(wp[w]) /\ use_count(wp[w]) = 0)
    /\ \A b \in Blocks :
          mem.cb[b].alloc # "none" =>
              ((mem.cb[b].alloc = "freed")
                  <=> (SharedHolders(b) = {} /\ WeakHolders(b) = {}))
    /\ ~mem.uaf

C10_WeakKeepsBlock ==
    /\ []C10_BlockAlive
    /\ [][ \A w \in WP :
                (wp[w].ctrl_block_ # Null /\ weak_ptr_dtor(w)) =>
                    \A b \in Blocks :
                        /\ mem'.cb[b].shared_count_ = mem.cb[b].shared_count_
                        /\ mem'.cb[b].weak_count_ =
                              IF b = wp[w].ctrl_block_
                              THEN mem.cb[b].weak_count_ - 1
                              ELSE mem.cb[b].weak_count_
          ]_vars

\* Two weak_ptr variables reference a block whose object is disposed: the
\* block is allocated, with a weak count of 2 and a strong count of 0.
C10_Witness ==
    \E b \in Blocks :
        /\ Cardinality(WeakHolders(b)) = 2 /\ SharedHolders(b) = {}
        /\ mem.obj[b].state = "destroyed" /\ mem.cb[b].dispose_calls = 1
        /\ mem.cb[b].alloc = "live"
        /\ mem.cb[b].weak_count_ = 2 /\ mem.cb[b].shared_count_ = 0

\* C11 as stated (SpecMT): in every state, at the granularity of the atomic
\* counter operations, a block whose strong count is 0 has had dispose() run
\* on its object.
C11_ZeroMeansDisposed ==
    \A b \in Blocks :
        (mem.cb[b].alloc # "none" /\ mem.cb[b].shared_count_ = 0)
            => mem.cb[b].dispose_calls >= 1

\* C11 (SpecMT), amended: in every state a block whose strong count is 0
\* either has had dispose() run on its object (once), or exactly one thread,
\* the one whose fetch_sub took the count to 0, is between that fetch_sub and
\* its call of dispose(), and the object is still live; when no thread is
\* inside release_shared the object of such a block is disposed. The block
\* may be allocated all the while.
C11_ZeroMeansDisposedOrDisposing ==
    \A b \in Blocks :
        (mem.cb[b].alloc # "none" /\ mem.cb[b].shared_count_ = 0) =>
            LET Disposers == {t \in Threads : th[t].pc = "dispose" /\ th[t].blk = b}
            IN  IF mem.cb[b].dispose_calls = 0
                THEN /\ Cardinality(Disposers) = 1
                     /\ mem.obj[b].state = "live"
                     /\ mem.cb[b].alloc = "live"
                ELSE /\ mem.cb[b].dispose_calls = 1
                     /\ Disposers = {}
                     /\ mem.obj[b].state = "destroyed"

\* The window: the strong count is 0, the object not yet disposed, while a
\* weak_ptr of another thread observes the block.
C11_Witness ==
    \E t \in Threads, w \in WPMT :
        /\ th[t].pc = "dispose"
        /\ mem.cb[th[t].blk].shared_count_ = 0
        /\ mem.cb[th[t].blk].dispose_calls = 0
        /\ mem.obj[th[t].blk].state = "live"
        /\ OwnerWP(w) # t /\ wp[w].ctrl_block_ = th[t].blk

C13_PointerIffBlock ==
    \A h \in SP :
        /\ (sp[h].ptr_ # Null) <=> (sp[h].ctrl_block_ # Null)
        /\ sp[h].ctrl_block_ # Null =>
              /\ mem.cb[sp[h].ctrl_block_].alloc = "live"
              /\ mem.cb[sp[h].ctrl_block_].shared_count_ >= 1

\* C14 (SpecMT): when weak_ptrs of one object are upgraded by lock() (or by
\* the shared_ptr constructor) in different threads at once, no increment is
\* lost and no upgrade fails while a shared_ptr of the object exists: in
\* every state shared_count_ is the number of shared_ptr handles of the
\* block (1 original + k kept results = 1 + k), and a compare-and-swap loop
\* that ends while the block has a shared_ptr ends with a handle of the
\* block in its destination and the counter one higher.
C14_CountIsHandles ==
    \A b \in Blocks :
        mem.cb[b].alloc # "none" =>
            mem.cb[b].shared_count_ = Cardinality(SharedHolders(b))

C14_ConcurrentLock ==
    /\ []C14_CountIsHandles
    /\ [][\A t \in Threads :
             (th[t].pc = "cas" /\ th'[t].pc = "idle") =>
                 LET b == th[t].blk
                 IN  IF SharedHolders(b) # {}
                     THEN /\ sp'[th[t].dst] = wp[th[t].src]
                          /\ sp'[th[t].dst].ctrl_block_ = b
                          /\ ret' \in {"handle", "constructed"}
                          /\ mem'.cb[b].shared_count_ = mem.cb[b].shared_count_ + 1
                          /\ Cardinality({h \in DOMAIN sp : sp'[h].ctrl_block_ = b})
                                = Cardinality(SharedHolders(b)) + 1
                     ELSE /\ ret' \in {"empty", "bad_weak_ptr"}
                          /\ mem'.cb[b].shared_count_ = 0
          ]_vars

\* Two lock() calls race: one thread has read the count 1 and has not yet
\* done its compare-and-swap, the other thread's lock() has just succeeded
\* and raised the count to 2; both weak_ptrs and the original are kept.
C14_Witness ==
    \E t \in Threads :
        /\ th[t].pc = "cas" /\ th[t].op = "lock" /\ th[t].count = 1
        /\ mem.cb[th[t].blk].shared_count_ = 2
        /\ ret = "handle"
        /\ \E h \in SPMT : OwnerSP(h) # t /\ sp[h].ctrl_block_ = th[t].blk

\* C15 (SpecBench): while the threads of the benchmark copy shared_obj and
\* destroy their copies, under every interleaving, shared_obj keeps its
\* block, the strong count is 1 + the number of local copies (never 0), the
\* object is live and dispose() was never called, no freed block is
\* accessed; and when every thread has finished its loop, use_count() of
\* shared_obj is what it was before the run (1).
Finished == \A t \in Threads : IsIdle(t) /\ bench.iter[t] = MaxIterations

Owners(a) == {x \in UP : up.u[x].ptr_ = a}

\* C16 as stated (SpecUnique): in every state at most one unique_ptr owns a
\* given address, and every move construction and every move assignment
\* leaves its source null and its target with the address the source had.
C16_SingleOwner == \A a \in Addrs : Cardinality(Owners(a)) <= 1

C16_MoveTransfers ==
    /\ []C16_SingleOwner
    /\ [][\A x, o \in UP :
             (unique_ptr_move(x, o) \/ unique_ptr_assign_move(x, o)) =>
                 /\ up'.u[o].ptr_ = Null
                 /\ up'.u[x].ptr_ = up.u[o].ptr_
          ]_vars

\* The same for moves between two different variables (not a claim: it
\* locates the failure of C16 in the self-assignment).
MoveBetweenTwoTransfers ==
    /\ []C16_SingleOwner
    /\ [][\A x, o \in UP :
             (x # o /\ (unique_ptr_move(x, o) \/ unique_ptr_assign_move(x, o))) =>
                 /\ up'.u[o].ptr_ = Null
                 /\ up'.u[x].ptr_ = up.u[o].ptr_
                 /\ up'.obj = up.obj \/ up.u[x].ptr_ # Null
          ]_vars

\* C17 (SpecUnique): the stored deleter is invoked exactly once on the
\* address a unique_ptr owns when the unique_ptr is destroyed, reset,
\* assigned nullptr or move-assigned over, and it is the deleter stored in
\* that unique_ptr; no call changes the deleter count of any other address:
\* release() invokes nothing, a call on an empty unique_ptr invokes nothing,
\* and in every state no address has seen two invocations, an owned address
\* or one in the caller's hands has seen none and is live.
C17_AtMostOnce ==
    \A a \in Addrs :
        /\ up.obj[a].deleter_calls <= 1
        /\ (up.obj[a].deleter_calls = 1) <=> (up.obj[a].state = "deleted")
        /\ (Owners(a) # {} \/ a \in up.raw) =>
               (up.obj[a].state = "live" /\ up.obj[a].deleter_calls = 0)

C17_DeleterOnce ==
    /\ []C17_AtMostOnce
    /\ [][/\ \A x \in UP :
                (/\ up.u[x].ptr_ # Null
                 /\ \/ unique_ptr_dtor(x)
                    \/ unique_ptr_assign_null(x)
                    \/ \E p \in {Null} \cup Addrs : unique_ptr_reset(x, p)
                    \/ \E o \in UP : unique_ptr_assign_move(x, o))
                => /\ up'.obj[up.u[x].ptr_].deleter_calls = 1
                   /\ up'.obj[up.u[x].ptr_].deleted_by = up.u[x].deleter_
                   /\ up'.obj[up.u[x].ptr_].state = "deleted"
          /\ \A x \in UP :
                unique_ptr_release(x) =>
                    /\ \A a \in Addrs : up'.obj[a] = up.obj[a]
                    /\ up.u[x].ptr_ # Null => up.u[x].ptr_ \in up'.raw
          /\ \A a \in Addrs :
                up'.obj[a].deleter_calls # up.obj[a].deleter_calls =>
                    /\ Owners(a) # {}
                    /\ {x \in UP : up'.u[x].ptr_ = a} = {}
                    /\ a \notin up'.raw
          ]_vars

\* One address was deleted, once, by the custom deleter of the unique_ptr
\* that owned it; another one was handed back by release() and is live.
C17_Witness ==
    \E a, b \in Addrs :
        /\ up.obj[a].state = "deleted" /\ up.obj[a].deleter_calls = 1
        /\ up.obj[a].deleted_by = "custom"
        /\ b \in up.raw /\ up.ret = b /\ up.obj[b].state = "live"
        /\ up.obj[b].deleter_calls = 0

\* C18 (SpecUnique): release() on an owning unique_ptr makes it null,
\* returns the owned address, puts it in the caller's hands and changes no
\* object (no deleter is invoked); reset(released pointer) on the same
\* unique_ptr then gives back the pointers, the objects and the caller's raw
\* pointers of the state before release(): the address is live, owned by
\* that unique_ptr alone and has seen no deleter.
RoundTrip(U, x) ==
    LET p  == U.u[x].ptr_
        U1 == release(U, x)
        U2 == reset(U1, x, U1.ret)
    IN  /\ U1.u[x].ptr_ = Null
        /\ U1.ret = p
        /\ p \in U1.raw
        /\ U1.obj = U.obj
        /\ \A y \in UP : U1.u[y].ptr_ # p
        /\ U2.u = U.u
        /\ U2.obj = U.obj
        /\ U2.raw = U.raw
        /\ {y \in UP : U2.u[y].ptr_ = p} = {x}
        /\ U2.obj[p].state = "live" /\ U2.obj[p].deleter_calls = 0

C18_ReleaseResetRoundTrip ==
    /\ [](\A x \in UP : up.u[x].ptr_ # Null => RoundTrip(up, x))
    /\ [][\A x \in UP :
             (up.u[x].ptr_ # Null /\ unique_ptr_release(x)) =>
                 /\ up'.u[x].ptr_ = Null /\ up'.ret = up.u[x].ptr_
                 /\ up'.obj = up.obj
                 /\ LET back == reset(up', x, up'.ret)
                    IN  back.u = up.u /\ back.obj = up.obj /\ back.raw = up.raw
          ]_vars

\* The address release() returned last is owned again, by a unique_ptr with
\* a custom deleter; it is live and no deleter has run on it.
C18_Witness ==
    \E x \in UP :
        /\ up.ret # Null /\ up.u[x].ptr_ = up.ret
        /\ up.u[x].deleter_ = "custom"
        /\ up.ret \notin up.raw
        /\ up.obj[up.ret].state = "live" /\ up.obj[up.ret].deleter_calls = 0

\* C19 as stated (SpecUnique): whenever a deleter ran on the old value of a
\* unique_ptr inside reset(p) with p not null, the unique_ptr did not hold p
\* at that moment.
C19_DeleteThenAdopt ==
    \A a \in Addrs :
        (up.obj[a].deleter_calls >= 1 /\ up.obj[a].reset_arg # Null)
            => up.obj[a].ptr_at_delete # up.obj[a].reset_arg

\* C19 (SpecUnique), amended: reset(p) stores p in the unique_ptr first and
\* then invokes the deleter on the old value if that was not null: at the
\* moment the deleter runs on the old value the unique_ptr holds p already;
\* afterwards the old object is deleted, once, and the unique_ptr holds p.
\* On an empty unique_ptr no deleter is invoked and p is adopted.
C19_AdoptedWhenDeleted ==
    \A a \in Addrs :
        up.obj[a].deleter_calls >= 1
            => up.obj[a].ptr_at_delete = up.obj[a].reset_arg

C19_AdoptThenDelete ==
    /\ []C19_AdoptedWhenDeleted
    /\ [][\A x \in UP, p \in {Null} \cup Addrs :
             unique_ptr_reset(x, p) =>
                 /\ up'.u[x].ptr_ = p
                 /\ IF up.u[x].ptr_ # Null
                    THEN LET old == up.u[x].ptr_
                         IN  /\ up'.obj[old].state = "deleted"
                             /\ up'.obj[old].deleter_calls = up.obj[old].deleter_calls + 1
                             /\ up'.obj[old].reset_arg = p
                             /\ up'.obj[old].ptr_at_delete = p
                    ELSE \A a \in Addrs :
                             up'.obj[a].deleter_calls = up.obj[a].deleter_calls
          ]_vars

\* reset(p) with p not null has deleted the old object of a unique_ptr that
\* still holds p, and the unique_ptr held p when the deleter ran.
C19_Witness ==
    \E a \in Addrs, x \in UP :
        /\ up.obj[a].state = "deleted" /\ up.obj[a].deleter_calls = 1
        /\ up.obj[a].reset_arg # Null
        /\ up.obj[a].ptr_at_delete = up.obj[a].reset_arg
        /\ up.u[x].ptr_ = up.obj[a].reset_arg

\* C20 (SpecAlloc): when the construction inside the storage that
\* allocate_shared got from the caller's allocator throws, the call ends
\* with the exception after it has given that storage back to the same
\* allocator, once; it has built no control block and no object and has
\* changed no shared_ptr. In every state, storage that was given back holds
\* no control block and no handle refers to it, and storage that is still
\* allocated holds a control block.
C20_StorageConsistent ==
    \A b \in Blocks :
        /\ al[b].deallocate_calls <= al[b].allocate_calls
        /\ al[b].allocate_calls <= 1
        /\ al[b].storage = "deallocated" =>
               /\ al[b].deallocate_calls = 1
               /\ mem.cb[b] = NoBlock /\ mem.obj[b] = NoObject
               /\ SharedHolders(b) = {} /\ WeakHolders(b) = {}
        /\ al[b].storage = "allocated" =>
               (al[b].deallocate_calls = 0 /\ mem.cb[b].alloc # "none")

C20_FailureReleasesStorage ==
    /\ []C20_StorageConsistent
    /\ [][\A h \in SP :
             allocate_shared(h, TRUE) =>
                 /\ ret' = "exception"
                 /\ mem' = mem /\ sp' = sp /\ wp' = wp
                 /\ \E b \in Blocks :
                       /\ al[b].storage = "none"
                       /\ al'[b].storage = "deallocated"
                       /\ al'[b].allocate_calls = 1
                       /\ al'[b].deallocate_calls = 1
                       /\ \A c \in Blocks \ {b} : al'[c] = al[c]
          ]_vars

\* A call of allocate_shared has just failed and its storage is back with
\* the allocator, while the block of an earlier, successful call is in use.
C20_Witness ==
    /\ ret = "exception"
    /\ \E b, c \in Blocks :
          /\ al[b].storage = "deallocated" /\ mem.cb[b] = NoBlock
          /\ al[c].storage = "allocated" /\ mem.cb[c].alloc = "live"
          /\ SharedHolders(c) # {}

\* C21 (SpecOOM): when the allocation of the control block fails in
\* make_shared, allocate_shared, shared_ptr(U* ptr) or reset(U* ptr), the call
\* ends with std::bad_alloc, no control block has been allocated or changed,
\* no shared_ptr or weak_ptr has changed and the allocator's storage is as
\* before; in every state every allocated block is one that a finished
\* constructor has built: it is live, a shared_ptr or a weak_ptr refers to
\* it, its weak count is at least 1 and its strong count is the number of
\* its shared_ptrs.
C21_NoOrphanBlock ==
    \A b \in Blocks :
        mem.cb[b].alloc # "none" =>
            \/ mem.cb[b].alloc = "freed"
            \/ /\ mem.cb[b].weak_count_ >= 1
               /\ mem.cb[b].shared_count_ = Cardinality(SharedHolders(b))
               /\ SharedHolders(b) \cup WeakHolders(b) # {}

C21_AllocationFailure ==
    /\ []C21_NoOrphanBlock
    /\ [][\A h \in SP :
             (\/ shared_ptr_raw_bad_alloc(h)
              \/ shared_ptr_reset_raw_bad_alloc(h)
              \/ make_shared_bad_alloc(h)
              \/ allocate_shared_bad_alloc(h))
                => /\ ret' = "bad_alloc"
                   /\ mem'.cb = mem.cb
                   /\ sp' = sp /\ wp' = wp /\ al' = al
          ]_vars

\* An allocation has just failed while a block built earlier is in use and
\* one slot for a block is still unused.
C21_Witness ==
    /\ ret = "bad_alloc"
    /\ \E b, c \in Blocks :
          /\ mem.cb[b].alloc = "live" /\ SharedHolders(b) # {}
          /\ mem.cb[c].alloc = "none"

\* C30 as stated (SpecOOM): when make_control_block throws in
\* shared_ptr(U* ptr) or in reset(U* ptr), the object passed in has been
\* destroyed, once, when the call ends, no live object is left without a
\* control block, and the handle that reset was called on is unchanged.
C30_NoLeakedObject ==
    \A b \in Blocks :
        mem.obj[b].state = "live" => mem.cb[b].alloc # "none"

C30_ObjectDeletedOnFailure ==
    /\ []C30_NoLeakedObject
    /\ [][\A h \in SP :
             (shared_ptr_raw_bad_alloc(h) \/ shared_ptr_reset_raw_bad_alloc(h)) =>
                 /\ ret' = "bad_alloc"
                 /\ sp' = sp
                 /\ \A b \in FreshBlocks \ FreshBlocks' :
                       /\ mem'.obj[b].state = "destroyed"
                       /\ mem'.obj[b].dtor_runs = 1
          ]_vars

\* The part of C30 that holds: reset(U* ptr) that fails leaves every handle
\* and every control block as it was (not a claim).
FailedResetKeepsOwnership ==
    [][\A h \in SP :
          shared_ptr_reset_raw_bad_alloc(h) =>
              (ret' = "bad_alloc" /\ sp' = sp /\ mem'.cb = mem.cb)
      ]_vars

\* C22 (SpecHB): with fetch_add, fetch_sub and the successful
\* compare-and-swap on shared_count_ ordered as in the source (acq_rel),
\* whenever a thread is about to call dispose() (it has taken the strong
\* count to 0), the latest write of every thread that wrote to the object through a
\* shared_ptr happens before that point: the destructor sees all of them.
C22_DisposerSeesAllWrites ==
    \A t \in Threads :
        th[t].pc = "dispose" => hb.written \subseteq hb.view[t]

\* A thread is about to dispose of the object, and another thread, which
\* got its shared_ptr from lock(), has written to the object.
C22_Witness ==
    \E t, s \in Threads :
        /\ t # s
        /\ th[t].pc = "dispose"
        /\ hb.written = Threads
        /\ s \in hb.view[t]
        /\ ret = "handle"

C24_AllHandlesGone ==
    /\ \A h \in DOMAIN sp : sp[h] = Empty
    /\ \A w \in DOMAIN wp : wp[w] = Empty
    /\ \A t \in Threads : IsIdle(t)

C24_NothingOutlives ==
    C24_AllHandlesGone =>
        /\ ~mem.uaf
        /\ \A b \in Blocks :
              mem.cb[b].alloc # "none" =>
                  /\ mem.cb[b].alloc = "freed"
                  /\ mem.cb[b].shared_count_ = 0 /\ mem.cb[b].weak_count_ = 0
                  /\ mem.cb[b].dispose_calls = 1 /\ mem.cb[b].destroy_calls = 1
                  /\ mem.obj[b].state = "destroyed" /\ mem.obj[b].dtor_runs = 1

C24_TeardownExactlyOnce ==
    /\ []C24_NothingOutlives
    /\ [][\A b \in Blocks :
             mem.cb[b].alloc # "none" =>
                 /\ mem.cb[b].shared_count_ = 0 => mem'.cb[b].shared_count_ = 0
                 /\ mem.cb[b].weak_count_ = 0 => mem'.cb[b].weak_count_ = 0
                 /\ (mem.cb[b].shared_count_ # 0 /\ mem'.cb[b].shared_count_ = 0) =>
                        /\ mem.cb[b].dispose_calls = 0
                        /\ \E t \in Threads :
                              th[t].pc = "idle" /\ th'[t] = Busy("dispose", b)
                 /\ (mem.cb[b].weak_count_ # 0 /\ mem'.cb[b].weak_count_ = 0) =>
                        /\ mem.cb[b].destroy_calls = 0 /\ mem.cb[b].dispose_calls = 1
                        /\ \E t \in Threads :
                              th[t].pc # "destroy" /\ th'[t] = Busy("destroy", b)
          ]_vars

\* Every handle is gone after a run in which a shared_ptr constructor threw
\* bad_weak_ptr: the block is freed and the object destroyed.
C24_Witness ==
    /\ C24_AllHandlesGone
    /\ ret = "bad_weak_ptr"
    /\ mem.cb[1].alloc = "freed" /\ mem.obj[1].state = "destroyed"

\* C25 (Spec): weak_ptr(const shared_ptr&), and the copy, move, assignment,
\* reset(), swap() and destructor of weak_ptr, change no shared_ptr and no
\* strong count; they run no destructor and call no dispose(); use_count()
\* of every shared_ptr, and of every weak_ptr that has a block after the
\* call, is what that block's use_count() was before the call.
C25_WeakOperation ==
    \/ wp' # wp
    \/ /\ sp' = sp
       /\ \/ \E w \in WP : weak_ptr_dtor(w) \/ weak_ptr_reset(w)
          \/ \E w, o \in WP : \/ weak_ptr_copy(w, o) \/ weak_ptr_move(w, o)
                              \/ weak_ptr_assign_copy(w, o)
                              \/ weak_ptr_assign_move(w, o)
                              \/ weak_ptr_swap(w, o)
          \/ \E w \in WP, h \in SP : \/ weak_ptr_from_shared(w, h)
                                     \/ weak_ptr_assign_shared(w, h)

C25_StrongCountFrame ==
    [][C25_WeakOperation =>
          /\ sp' = sp
          /\ mem'.obj = mem.obj
          /\ \A b \in Blocks :
                /\ mem'.cb[b].shared_count_ = mem.cb[b].shared_count_
                /\ mem'.cb[b].dispose_calls = mem.cb[b].dispose_calls
          /\ \A h \in SP : use_count(sp[h])' = use_count(sp[h])
          /\ \A w \in WP :
                wp'[w].ctrl_block_ # Null =>
                    use_count(wp[w])' = cb_use_count(mem, wp'[w].ctrl_block_)
      ]_vars

\* Two weak_ptrs were made for an object with two owners, and the last
\* weak_ptr of another object, which had no owner left, has been destroyed.
C25_Witness ==
    \E b, c \in Blocks :
        /\ Cardinality(SharedHolders(b)) = 2 /\ Cardinality(WeakHolders(b)) = 2
        /\ mem.cb[b].shared_count_ = 2
        /\ mem.cb[b].weak_count_ = 2 + InitialWeak
        /\ mem.cb[c].alloc = "freed" /\ mem.cb[c].destroy_calls = 1

\* C26 (SpecOOM): reset(U* ptr) leaves the handle with a block that did not
\* exist before (strong count 1, weak count 1, the new object live) and
\* use_count() = 1; the strong count of the former block is one less, the
\* former object is destroyed exactly when the handle was its only owner
\* (the block itself stays for its weak_ptrs); no other handle and no other
\* block changes. When the allocation of the new block fails, nothing was
\* released: the old ownership is given up only after the new block is
\* built. reset() leaves the handle empty with use_count() = 0 and releases
\* the same one strong reference.
C26_Released(old, h) ==
    old # Null =>
        /\ mem'.cb[old].shared_count_ = mem.cb[old].shared_count_ - 1
        /\ mem'.cb[old].dispose_calls = (IF SharedHolders(old) = {h} THEN 1 ELSE 0)
        /\ mem'.obj[old].state = (IF SharedHolders(old) = {h} THEN "destroyed" ELSE "live")
        /\ mem'.cb[old].alloc = (IF SharedHolders(old) = {h} /\ WeakHolders(old) = {}
                                 THEN "freed" ELSE "live")

C26_Reset ==
    [][\A h \in SP :
          LET old == sp[h].ctrl_block_
              new == sp'[h].ctrl_block_
          IN  /\ shared_ptr_reset_raw(h, FALSE) =>
                    /\ new # Null /\ new # old /\ mem.cb[new].alloc = "none"
                    /\ sp'[h].ptr_ = new /\ mem'.obj[new].state = "live"
                    /\ mem'.cb[new].alloc = "live"
                    /\ mem'.cb[new].shared_count_ = 1 /\ mem'.cb[new].weak_count_ = 1
                    /\ use_count(sp[h])' = 1
                    /\ C26_Released(old, h)
                    /\ \A o \in SP \ {h} : sp'[o] = sp[o]
                    /\ wp' = wp
                    /\ \A c \in Blocks \ {old, new} : mem'.cb[c] = mem.cb[c]
              /\ shared_ptr_reset_raw_bad_alloc(h) =>
                    (ret' = "bad_alloc" /\ sp' = sp /\ wp' = wp /\ mem'.cb = mem.cb)
              /\ shared_ptr_reset(h) =>
                    /\ sp'[h] = Empty /\ ~AsBool(sp'[h]) /\ use_count(sp[h])' = 0
                    /\ C26_Released(old, h)
                    /\ \A o \in SP \ {h} : sp'[o] = sp[o]
                    /\ wp' = wp
                    /\ \A c \in Blocks \ {old} : mem'.cb[c] = mem.cb[c]
      ]_vars

\* A handle that shared its object with another shared_ptr and a weak_ptr
\* was reset to a new object: the former object is live with one owner, the
\* handle is the only owner of the new one.
C26_Witness ==
    \E h, o \in SP :
        /\ h # o
        /\ sp[h].ctrl_block_ # Null /\ sp[o].ctrl_block_ # Null
        /\ sp[h].ctrl_block_ # sp[o].ctrl_block_
        /\ WeakHolders(sp[o].ctrl_block_) # {}
        /\ mem.cb[sp[o].ctrl_block_].variant = "inline"
        /\ mem.cb[sp[h].ctrl_block_].variant = "separate"
        /\ use_count(sp[h]) = 1 /\ use_count(sp[o]) = 1

\* C27 (Spec): copy assignment gives the target the source's fields and
\* changes no other handle. When target and source have the same block (the
\* same handle, or two handles of one block) nothing in memory changes: the
\* strong count is as before, dispose() is not called, and the count in the
\* middle of the call, after the copy and before the release, is one more
\* than before, hence never 0. When the blocks differ, the source's block
\* gains exactly one strong reference, the target's former block loses
\* exactly one (its object is destroyed exactly when the target was the
\* only owner) and no other block changes.
C27_CopyAssign ==
    [][(ret' = "void" /\ wp' = wp) => \A h, o \in SP :
          shared_ptr_assign_copy(h, o) =>
              LET src == sp[o].ctrl_block_
                  old == sp[h].ctrl_block_
                  mid == CopyShared(mem, sp[o])
              IN  /\ sp'[h] = sp[o]
                  /\ \A x \in SP \ {h} : sp'[x] = sp[x]
                  /\ IF src = old
                     THEN /\ mem' = mem
                          /\ src # Null =>
                                /\ mid.cb[src].shared_count_ = mem.cb[src].shared_count_ + 1
                                /\ mem'.cb[src].shared_count_ >= 1
                                /\ mem'.obj[src].state = "live"
                     ELSE /\ src # Null =>
                                /\ mem'.cb[src].shared_count_ = mem.cb[src].shared_count_ + 1
                                /\ mem'.obj[src] = mem.obj[src]
                          /\ old # Null =>
                                /\ mem'.cb[old].shared_count_ = mem.cb[old].shared_count_ - 1
                                /\ mem'.cb[old].dispose_calls =
                                       (IF SharedHolders(old) = {h} THEN 1 ELSE 0)
                                /\ mem'.obj[old].state =
                                       (IF SharedHolders(old) = {h} THEN "destroyed" ELSE "live")
                          /\ \A c \in Blocks \ {src, old} :
                                mem'.cb[c] = mem.cb[c] /\ mem'.obj[c] = mem.obj[c]
      ]_vars

\* Two shared_ptrs share one object, after an assignment that took the last
\* owner from another object, whose block is kept by a weak_ptr.
C27_Witness ==
    \E b, c \in Blocks :
        /\ SharedHolders(b) = SP /\ mem.cb[b].shared_count_ = Cardinality(SP)
        /\ mem.obj[b].state = "live"
        /\ mem.obj[c].state = "destroyed" /\ mem.cb[c].alloc = "live"
        /\ WeakHolders(c) # {}

\* C28 (Spec): for a block made by make_shared, once the strong count is 0
\* the destructor has run once, in place: the block, and with it the
\* object's storage, is still allocated, and some weak_ptr refers to it;
\* every weak_ptr that has a block finds the object's storage allocated if
\* the block is inline; and the step that frees an inline block is the one
\* that takes its weak count to 0, after the destructor has run.
C28_InlineStorage ==
    /\ \A b \in Blocks :
          mem.cb[b].variant = "inline" =>
              /\ storage_allocated(mem, b)
              /\ mem.cb[b].weak_count_ >= 1
              /\ mem.cb[b].shared_count_ = 0 =>
                    /\ mem.obj[b].state = "destroyed" /\ mem.obj[b].dtor_runs = 1
                    /\ mem.cb[b].dispose_calls = 1 /\ mem.cb[b].destroy_calls = 0
                    /\ WeakHolders(b) # {}
    /\ \A w \in WP :
          wp[w].ctrl_block_ # Null =>
              /\ mem.cb[wp[w].ctrl_block_].alloc = "live"
              /\ mem.cb[wp[w].ctrl_block_].variant = "inline"
                    => storage_allocated(mem, wp[w].ctrl_block_)

C28_InlineDisposal ==
    /\ []C28_InlineStorage
    /\ [][\A b \in Blocks :
             (mem.cb[b].variant = "inline" /\ mem'.cb[b].alloc = "freed") =>
                 /\ mem'.cb[b].weak_count_ = 0 /\ mem'.cb[b].shared_count_ = 0
                 /\ mem'.obj[b].state = "destroyed" /\ mem'.obj[b].dtor_runs = 1
                 /\ mem'.cb[b].dispose_calls = 1 /\ mem'.cb[b].destroy_calls = 1
                 /\ ~storage_allocated(mem, b)'
                 /\ \A w \in WP : wp'[w].ctrl_block_ # b
          ]_vars

\* The object of a make_shared block has been destroyed while a weak_ptr
\* keeps the block (and the storage in it) allocated.
C28_Witness ==
    \E b \in Blocks :
        /\ mem.cb[b].variant = "inline" /\ mem.cb[b].alloc = "live"
        /\ mem.cb[b].shared_count_ = 0 /\ mem.obj[b].state = "destroyed"
        /\ storage_allocated(mem, b)
        /\ Cardinality(WeakHolders(b)) = 2

\* C29 (SpecCycle): when two objects each hold a shared_ptr to the other and
\* no other shared_ptr and no weak_ptr refers to either of them, both blocks
\* are allocated with a strong count of at least 1, both objects are live
\* and dispose() was never called on them; and every step from such a state
\* leads to such a state again: the two objects are never destroyed.
C29_Leaked(a, b) ==
    /\ a # b
    /\ sp[member(a)].ctrl_block_ = b /\ sp[member(b)].ctrl_block_ = a
    /\ \A x \in DOMAIN sp \ {member(a), member(b)} : sp[x].ctrl_block_ \notin {a, b}
    /\ \A w \in WP : wp[w].ctrl_block_ \notin {a, b}

C29_Intact(b) ==
    /\ mem.cb[b].alloc = "live" /\ mem.cb[b].shared_count_ >= 1
    /\ mem.obj[b].state = "live" /\ mem.obj[b].dtor_runs = 0
    /\ mem.cb[b].dispose_calls = 0

C29_LeakedIsIntact ==
    \A a, b \in Blocks : C29_Leaked(a, b) => (C29_Intact(a) /\ C29_Intact(b))

C29_CycleLeaks ==
    /\ []C29_LeakedIsIntact
    /\ [][\A a, b \in Blocks : C29_Leaked(a, b) => C29_Leaked(a, b)']_vars

\* Two objects refer to each other, every shared_ptr variable and every
\* weak_ptr of the program is empty, and both objects are still live.
C29_Witness ==
    /\ \A h \in SP : sp[h] = Empty
    /\ \A w \in WP : wp[w] = Empty
    /\ \E a, b \in Blocks :
          /\ C29_Leaked(a, b)
          /\ mem.cb[a].shared_count_ = 1 /\ mem.cb[b].shared_count_ = 1
          /\ mem.obj[a].state = "live" /\ mem.obj[b].state = "live"

\* C31 (Spec): a weak_ptr without a control block reports expired() and
\* use_count() = 0; shared_ptr(const weak_ptr&) on it does not throw and
\* builds an empty shared_ptr with use_count() = 0, changing no counter;
\* lock() on it returns an empty shared_ptr, changing no counter; and the
\* constructor throws bad_weak_ptr exactly when the weak_ptr has a block
\* whose strong count is 0.
C31_EmptyWeakExpired ==
    \A w \in WP :
        wp[w].ctrl_block_ = Null => (expired(wp[w]) /\ use_count(wp[w]) = 0)

C31_EmptyWeak ==
    /\ []C31_EmptyWeakExpired
    /\ [][\A h \in SP, w \in WP :
             /\ shared_ptr_from_weak(h, w) =>
                   /\ (ret' = "bad_weak_ptr") <=>
                          (wp[w].ctrl_block_ # Null
                              /\ mem.cb[wp[w].ctrl_block_].shared_count_ = 0)
                   /\ wp[w].ctrl_block_ = Null =>
                          /\ ret' = "constructed_empty"
                          /\ sp'[h].ctrl_block_ = Null /\ ~AsBool(sp'[h])
                          /\ use_count(sp[h])' = 0
                          /\ mem' = mem /\ wp' = wp
             /\ (wp[w].ctrl_block_ = Null /\ lock(w, h)) =>
                   /\ ret' = "empty" /\ sp'[h] = Empty
                   /\ mem' = mem /\ wp' = wp
          ]_vars

\* A shared_ptr has just been built, empty, from an empty weak_ptr, while
\* another weak_ptr has a block whose object is gone.
C31_Witness ==
    /\ ret = "constructed_empty"
    /\ \E w, x \in WP :
          /\ wp[w] = Empty
          /\ wp[x].ctrl_block_ # Null /\ expired(wp[x])

\* C32 (SpecMT): in every state in which every thread is between two calls
\* (no fetch_add, fetch_sub or compare-and-swap loop is under way and no
\* dispose() or destroy() is pending), for every allocated control block the
\* strong count is the number of shared_ptrs of the block, and the weak
\* count is the number of its weak_ptrs, plus 1 while the strong count is
\* greater than 0.
C32_CountersMatchHandles ==
    (\A t \in Threads : IsIdle(t)) =>
        \A b \in Blocks :
            mem.cb[b].alloc = "live" =>
                /\ mem.cb[b].shared_count_ = Cardinality(SharedHolders(b))
                /\ mem.cb[b].weak_count_ =
                       Cardinality(WeakHolders(b))
                           + (IF mem.cb[b].shared_count_ > 0 THEN 1 ELSE 0)

\* No call is under way; the owners are gone and two weak_ptrs keep the
\* block, with a weak count of 2, after one thread's upgrade failed.
C32_Witness ==
    /\ \A t \in Threads : IsIdle(t)
    /\ mem.cb[1].alloc = "live"
    /\ mem.cb[1].shared_count_ = 0 /\ SharedHolders(1) = {}
    /\ Cardinality(WeakHolders(1)) = 2 /\ mem.cb[1].weak_count_ = 2
    /\ ret = "empty"

\* C33 as stated (SpecAlloc): a control block whose memory allocate_shared
\* got from the caller's allocator has, once it is destroyed, been given
\* back to that allocator by one call of deallocate, and its memory was
\* released by nothing else.
C33_ReturnedToAllocator ==
    \A b \in Blocks :
        /\ (al[b].allocate_calls = 1 /\ mem.cb[b].alloc = "freed") =>
               (al[b].storage = "deallocated" /\ al[b].deallocate_calls = 1)
        /\ al[b].storage \notin {"deleted", "corrupted"}

\* The part of C33 that holds: a block from allocate_shared is destroyed by
\* exactly one call of destroy(), when its weak count has reached 0 (not a
\* claim).
AllocBlockDestroyedAtZero ==
    \A b \in Blocks :
        al[b].storage \in {"deleted", "corrupted"} <=>
            (mem.cb[b].alloc = "freed" /\ mem.cb[b].weak_count_ = 0
                /\ mem.cb[b].destroy_calls = 1)

====
